---- MODULE Spec2Model ----
(***************************************************************************)
(* Meerkat: a language server for Suricata signatures.                     *)
(*                                                                         *)
(* The module models the signature parser (src/src/parser.rs), the rule    *)
(* data model with its Display and variable traversal (src/src/rule/*.rs), *)
(* the document handler Backend::on_change (src/src/main.rs) and the       *)
(* queries on a stored document: references (src/src/reference.rs),        *)
(* completion (src/src/completion.rs) and hover (src/src/hover.rs and the  *)
(* Hover trait of src/src/rule/header.rs).                                 *)
(*                                                                         *)
(* Text is a sequence of one-character strings.  A parser is an operator   *)
(* P(s, i): s is the whole line, i the 0-based offset where it starts.  It *)
(* returns a record [ok, panic, pos, val]: ok says the parser matched, pos *)
(* is the offset after the match, val is <<output>>, and panic says that a *)
(* closure of the parser called unwrap() on an Err (the thread aborts).    *)
(* The combinators are those of the chumsky crate as parser.rs uses them:  *)
(* ordered choice without backtracking into a committed alternative,       *)
(* greedy repetition, and spans computed from the consumed tokens.         *)
(***************************************************************************)
EXTENDS Integers, Sequences, FiniteSets, Bags, TLC

\* ------------------------------------------------------------------------
\* Bounds of the model
\* ------------------------------------------------------------------------

\* nesting depth of the generated address and port trees
MaxDepth == 2

\* length of the generated option string values
MaxStr == 3

\* number of options in a generated option list
MaxOpts == 2

\* number of lines of a generated document
MaxLines == 2

\* ------------------------------------------------------------------------
\* Program constants
\* ------------------------------------------------------------------------

\* largest value of a u8 (IPv4 octet, CIDR mask)
U8Max == 255

\* largest value of a u16 (port number, IPv6 group)
U16Max == 65535

\* ------------------------------------------------------------------------
\* Characters
\* ------------------------------------------------------------------------

Digits == {"0", "1", "2", "3", "4", "5", "6", "7", "8", "9"}

Letters ==
  {"a", "b", "c", "d", "e", "f", "g", "h", "i", "j", "k", "l", "m",
   "n", "o", "p", "q", "r", "s", "t", "u", "v", "w", "x", "y", "z",
   "A", "B", "C", "D", "E", "F", "G", "H", "I", "J", "K", "L", "M",
   "N", "O", "P", "Q", "R", "S", "T", "U", "V", "W", "X", "Y", "Z"}

Whitespace == {" ", "\t", "\n", "\r"}

HexChars == Digits \cup {"a", "b", "c", "d", "e", "f", "A", "B", "C", "D", "E", "F"}

HexVal(c) ==
  CASE c = "0" -> 0 [] c = "1" -> 1 [] c = "2" -> 2 [] c = "3" -> 3
    [] c = "4" -> 4 [] c = "5" -> 5 [] c = "6" -> 6 [] c = "7" -> 7
    [] c = "8" -> 8 [] c = "9" -> 9
    [] c \in {"a", "A"} -> 10 [] c \in {"b", "B"} -> 11
    [] c \in {"c", "C"} -> 12 [] c \in {"d", "D"} -> 13
    [] c \in {"e", "E"} -> 14 [] c \in {"f", "F"} -> 15

HexDigit(n) ==
  <<"0", "1", "2", "3", "4", "5", "6", "7", "8", "9",
    "a", "b", "c", "d", "e", "f">>[n + 1]

\* the value of a run of digits in the given radix
RECURSIVE StrToNum(_, _)
StrToNum(t, radix) ==
  IF t = <<>> THEN 0
  ELSE StrToNum(SubSeq(t, 1, Len(t) - 1), radix) * radix + HexVal(t[Len(t)])

\* the digits of a number in the given radix, without leading zeros
RECURSIVE NumToStr(_, _)
NumToStr(n, radix) ==
  IF n < radix THEN <<HexDigit(n)>>
  ELSE NumToStr(n \div radix, radix) \o <<HexDigit(n % radix)>>

\* ------------------------------------------------------------------------
\* Parser results and the chumsky primitives
\* ------------------------------------------------------------------------

Ok(v, p) == [ok |-> TRUE, panic |-> FALSE, pos |-> p, val |-> <<v>>]

Fail == [ok |-> FALSE, panic |-> FALSE, pos |-> 0, val |-> <<>>]

Panic == [ok |-> FALSE, panic |-> TRUE, pos |-> 0, val |-> <<>>]

\* Option<T>: None is <<>>, Some(x) is <<x>>
None == <<>>

Some(x) == <<x>>

\* the character at offset i, or "" at the end of input
At(s, i) == IF i < Len(s) THEN s[i + 1] ELSE ""

\* the text between two offsets
Slice(s, a, b) == SubSeq(s, a + 1, b)

\* map_with_span: the span of a match that started at offset a and ended at
\* offset b.  It runs from the start of the first token to the end of the last
\* one; a match that consumed nothing gets the span of the next token, and at
\* the end of input the end-of-input span, which is len..len+1 for a &str.
SpanSince(s, a, b) ==
  LET last == IF b - 1 > a THEN b - 1 ELSE a
  IN [start |-> IF a < Len(s) THEN a ELSE Len(s),
      end   |-> IF last < Len(s) THEN last + 1 ELSE Len(s) + 1]

\* filter(pred).repeated(): the offset after the longest run of chars of cs
RECURSIVE SkipWhile(_, _, _)
SkipWhile(s, i, cs) ==
  IF i < Len(s) /\ s[i + 1] \in cs THEN SkipWhile(s, i + 1, cs) ELSE i

\* text::whitespace(), the padding of padded()
SkipWs(s, i) == SkipWhile(s, i, Whitespace)

\* the value v given to K: the result of one step, used by the next
Bind(v, K(_)) == K(v)

\* a.or(b): the result a of the first alternative if it matched (or the
\* thread panicked in it), else the result b of the second
Or(a, b) == IF a.ok \/ a.panic THEN a ELSE b

\* p.padded() applied to the result r of p: the whitespace after it
Padded(s, r) == IF r.ok THEN [r EXCEPT !.pos = SkipWs(s, r.pos)] ELSE r

\* text::int(10): a non-zero digit followed by digits, or a single "0".
\* The offset after the literal, or -1.
TextInt(s, i) ==
  IF At(s, i) \in Digits \ {"0"} THEN SkipWhile(s, i + 1, Digits)
  ELSE IF At(s, i) = "0" THEN i + 1
  ELSE -1

\* text::ident(): a letter or underscore followed by letters, digits and
\* underscores.  The offset after the identifier, or -1.
TextIdent(s, i) ==
  IF At(s, i) \in Letters \cup {"_"}
  THEN SkipWhile(s, i + 1, Letters \cup Digits \cup {"_"})
  ELSE -1

\* text::keyword(kw): an identifier that equals kw
TextKeyword(s, i, kw) ==
  LET e == TextIdent(s, i)
  IN IF e >= 0 /\ Slice(s, i, e) = kw THEN e ELSE -1

\* ------------------------------------------------------------------------
\* IP addresses (std::net, as parser.rs and header.rs use it)
\* ------------------------------------------------------------------------

\* the parts of a text between its colons
RECURSIVE SplitColon(_)
SplitColon(t) ==
  LET k == SkipWhile(t, 0, HexChars)
  IN IF k >= Len(t) THEN <<t>>
     ELSE <<Slice(t, 0, k)>> \o SplitColon(Slice(t, k + 1, Len(t)))

\* the 16-bit groups of a colon-separated run, <<>> for the empty text
Ipv6Groups(t) == IF t = <<>> THEN <<>> ELSE SplitColon(t)

Ipv6GroupsOk(g) == \A k \in 1..Len(g) : Len(g[k]) >= 1 /\ Len(g[k]) <= 4

\* the offset of the first "::" of a text, or -1
RECURSIVE FindDoubleColon(_, _)
FindDoubleColon(t, i) ==
  IF i + 1 >= Len(t) THEN -1
  ELSE IF t[i + 1] = ":" /\ t[i + 2] = ":" THEN i
  ELSE FindDoubleColon(t, i + 1)

Zeros(n) == [k \in 1..n |-> 0]

\* str::parse::<Ipv6Addr>() on a text of hex digits and colons: Some(groups)
\* or None.  Eight groups, or fewer with one "::" that stands for at least one
\* zero group.
ParseIpv6(t) ==
  LET dc == FindDoubleColon(t, 0)
  IN IF dc < 0
     THEN LET g == Ipv6Groups(t)
          IN IF Len(g) = 8 /\ Ipv6GroupsOk(g)
             THEN Some([k \in 1..8 |-> StrToNum(g[k], 16)])
             ELSE None
     ELSE LET h == Ipv6Groups(Slice(t, 0, dc))
              l == Ipv6Groups(Slice(t, dc + 2, Len(t)))
          IN IF Ipv6GroupsOk(h) /\ Ipv6GroupsOk(l) /\ Len(h) + Len(l) <= 7
             THEN Some([k \in 1..Len(h) |-> StrToNum(h[k], 16)]
                       \o Zeros(8 - Len(h) - Len(l))
                       \o [k \in 1..Len(l) |-> StrToNum(l[k], 16)])
             ELSE None

\* the items of a sequence of texts joined by a separator
RECURSIVE Join(_, _)
Join(ts, sep) ==
  IF ts = <<>> THEN <<>>
  ELSE IF Len(ts) = 1 THEN ts[1]
  ELSE ts[1] \o sep \o Join(Tail(ts), sep)

\* Display of Ipv4Addr
Ipv4ToString(o) == Join([k \in 1..4 |-> NumToStr(o[k], 10)], <<".">>)

\* the length of the run of zero groups that starts at index k
RECURSIVE ZeroRun(_, _)
ZeroRun(g, k) == IF k <= Len(g) /\ g[k] = 0 THEN 1 + ZeroRun(g, k + 1) ELSE 0

HexGroups(g) == Join([k \in 1..Len(g) |-> NumToStr(g[k], 16)], <<":">>)

\* Display of Ipv6Addr: an IPv4-mapped address prints its last 32 bits dotted,
\* otherwise the first longest run of two or more zero groups prints as "::"
Ipv6ToString(g) ==
  IF \A k \in 1..5 : g[k] = 0 /\ g[6] = U16Max
  THEN <<":", ":", "f", "f", "f", "f", ":">>
       \o Ipv4ToString(<<g[7] \div 256, g[7] % 256, g[8] \div 256, g[8] % 256>>)
  ELSE LET best == CHOOSE k \in 1..8 :
                     /\ \A j \in 1..8 : ZeroRun(g, j) <= ZeroRun(g, k)
                     /\ \A j \in 1..(k - 1) : ZeroRun(g, j) < ZeroRun(g, k)
           n == ZeroRun(g, best)
       IN IF n > 1
          THEN HexGroups(SubSeq(g, 1, best - 1)) \o <<":", ":">>
               \o HexGroups(SubSeq(g, best + n, 8))
          ELSE HexGroups(g)

\* Display of IpAddr
IpToString(ip) == IF ip.v = 4 THEN Ipv4ToString(ip.o) ELSE Ipv6ToString(ip.o)

\* ------------------------------------------------------------------------
\* NetworkAddress::parser (src/src/parser.rs, 85-176)
\* ------------------------------------------------------------------------

\* Spanned<T>
Spanned(n, sp) == [node |-> n, span |-> sp]

\* `digit`: text::int(10).try_map(parse::<u8>), an octet of an IPv4 address.
\* A literal above 255 is an error of the parser, not a panic.
Digit(s, i) ==
  LET e == TextInt(s, i)
  IN IF e < 0 THEN Fail
     ELSE LET n == StrToNum(Slice(s, i, e), 10)
          IN IF n > U8Max THEN Fail ELSE Ok(n, e)

\* `ipv4`: digit.separated_by(just(".")).exactly(4); the list stops after
\* four octets
RECURSIVE Ipv4Octets(_, _, _)
Ipv4Octets(s, i, acc) ==
  Bind(Digit(s, i), LAMBDA d :
    IF ~d.ok THEN Fail
    ELSE IF Len(acc) = 3 THEN Ok(Append(acc, d.val[1]), d.pos)
    ELSE IF At(s, d.pos) = "." THEN Ipv4Octets(s, d.pos + 1, Append(acc, d.val[1]))
    ELSE Fail)

Ipv4(s, i) ==
  Bind(Ipv4Octets(s, i, <<>>), LAMBDA r :
    IF ~r.ok THEN Fail
    ELSE Ok(Spanned([tag |-> "IPAddr", ip |-> [v |-> 4, o |-> r.val[1]],
                     span |-> SpanSince(s, i, r.pos)],
                    SpanSince(s, i, r.pos)), r.pos))

\* `ipv6`: the longest run of hex digits and colons, parsed as an Ipv6Addr
Ipv6(s, i) ==
  Bind(SkipWhile(s, i, HexChars \cup {":"}), LAMBDA e :
    Bind(ParseIpv6(Slice(s, i, e)), LAMBDA ip :
      IF ip = None THEN Fail
      ELSE Ok(Spanned([tag |-> "IPAddr", ip |-> [v |-> 6, o |-> ip[1]],
                       span |-> SpanSince(s, i, e)],
                      SpanSince(s, i, e)), e)))

\* `ip`: ipv6.or(ipv4)
Ip(s, i) == Or(Ipv6(s, i), Ipv4(s, i))

\* the mask of `cidr` after the ip a: "/" and a number whose closure unwraps
\* parse::<u8>()
CidrMask(s, i, a, e) ==
  IF e < 0 THEN Fail
  ELSE IF StrToNum(Slice(s, a.pos + 1, e), 10) > U8Max THEN Panic
  ELSE Ok(Spanned([tag |-> "CIDR",
                   ip |-> a.val[1].node.ip,
                   ipspan |-> a.val[1].node.span,
                   mask |-> StrToNum(Slice(s, a.pos + 1, e), 10),
                   maskspan |-> SpanSince(s, a.pos + 1, e)],
                  SpanSince(s, i, e)), e)

\* `cidr`: ip, "/", mask
Cidr(s, i) ==
  Bind(Ip(s, i), LAMBDA a :
    IF ~a.ok \/ At(s, a.pos) # "/" THEN Fail
    ELSE CidrMask(s, i, a, TextInt(s, a.pos + 1)))

\* `ip_variable`: "$" and an identifier; the span includes the "$"
IpVariable(s, i) ==
  IF At(s, i) # "$" THEN Fail
  ELSE Bind(TextIdent(s, i + 1), LAMBDA e :
         IF e < 0 THEN Fail
         ELSE Ok(Spanned([tag |-> "IPVariable", name |-> Slice(s, i + 1, e),
                          span |-> SpanSince(s, i, e)],
                         SpanSince(s, i, e)), e))

\* `any`: text::keyword("any")
AddrAny(s, i) ==
  Bind(TextKeyword(s, i, <<"a", "n", "y">>), LAMBDA e :
    IF e < 0 THEN Fail
    ELSE Ok(Spanned([tag |-> "Any", span |-> SpanSince(s, i, e)],
                    SpanSince(s, i, e)), e))

RECURSIVE NetworkAddressParser(_, _)
RECURSIVE IpGroupRest(_, _, _)
RECURSIVE IpGroup(_, _)
RECURSIVE NegatedIp(_, _)

\* the items of `ip_group` after the first one:
\* separated_by(just(",")).allow_trailing()
IpGroupRest(s, p, acc) ==
  IF At(s, p) # "," THEN Ok(acc, p)
  ELSE Bind(NetworkAddressParser(s, p + 1), LAMBDA r :
         IF r.panic THEN Panic
         ELSE IF r.ok THEN IpGroupRest(s, r.pos, Append(acc, r.val[1]))
         ELSE Ok(acc, p + 1))

\* the items of `ip_group`, f being the result of the first one
IpGroupItems(s, i, f) ==
  IF f.panic THEN Panic
  ELSE IF f.ok THEN IpGroupRest(s, f.pos, <<f.val[1]>>)
  ELSE Ok(<<>>, i + 1)

\* `ip_group`: "[" items "]"
IpGroup(s, i) ==
  IF At(s, i) # "[" THEN Fail
  ELSE Bind(IpGroupItems(s, i, NetworkAddressParser(s, i + 1)), LAMBDA items :
         IF items.panic THEN Panic
         ELSE IF At(s, items.pos) # "]" THEN Fail
         ELSE Ok(Spanned([tag |-> "IPGroup", items |-> items.val[1]],
                         SpanSince(s, i, items.pos + 1)), items.pos + 1))

\* `negated_ip`: "!" and one of ip_variable, ip_group, cidr, ip
NegatedIp(s, i) ==
  IF At(s, i) # "!" THEN Fail
  ELSE Bind(Or(IpVariable(s, i + 1),
            Or(IpGroup(s, i + 1),
            Or(Cidr(s, i + 1),
               Ip(s, i + 1)))), LAMBDA r :
         IF r.panic THEN Panic
         ELSE IF ~r.ok THEN Fail
         ELSE Ok(Spanned([tag |-> "NegIP", child |-> r.val[1]],
                         SpanSince(s, i, r.pos)), r.pos))

\* the alternatives of the address parser in order, at offset i
AddressAlternatives(s, i) ==
  Or(IpVariable(s, i),
  Or(NegatedIp(s, i),
  Or(IpGroup(s, i),
  Or(Cidr(s, i),
  Or(Ip(s, i),
     AddrAny(s, i))))))

\* the address parser: the alternatives, then padded()
NetworkAddressParser(s, i) == Padded(s, AddressAlternatives(s, SkipWs(s, i)))

\* ------------------------------------------------------------------------
\* NetworkPort::parser (src/src/parser.rs, 178-255)
\* ------------------------------------------------------------------------

\* the number of a literal that ends at offset e: the closure unwraps
\* parse::<u16>(), so a literal above 65535 panics.  The value is [port, span].
NumberValue(s, i, e) ==
  IF e < 0 THEN Fail
  ELSE IF StrToNum(Slice(s, i, e), 10) > U16Max THEN Panic
  ELSE Ok([port |-> StrToNum(Slice(s, i, e), 10), span |-> SpanSince(s, i, e)], e)

\* `number`: text::int(10).try_map(...)
Number(s, i) == NumberValue(s, i, TextInt(s, i))

\* `any`: text::keyword("any")
PortAny(s, i) ==
  Bind(TextKeyword(s, i, <<"a", "n", "y">>), LAMBDA e :
    IF e < 0 THEN Fail
    ELSE Ok(Spanned([tag |-> "Any", span |-> SpanSince(s, i, e)],
                    SpanSince(s, i, e)), e))

\* `port_number`: number.map(Port).padded()
PortNumber(s, i) ==
  Bind(Number(s, SkipWs(s, i)), LAMBDA n :
    IF ~n.ok THEN n
    ELSE Padded(s, Ok(Spanned([tag |-> "Port", port |-> n.val[1].port,
                               span |-> n.val[1].span], n.val[1].span), n.pos)))

\* the offset after an optional number a that was tried at offset i
AfterOrNot(a, i) == IF a.ok THEN a.pos ELSE i

\* the try_map of port_range without the rejection of ":" alone: the field
\* reads as `any`
PortRangeColonAny(s, i, a, b) ==
  IF b.panic THEN Panic
  ELSE IF ~a.ok /\ ~b.ok
    THEN Ok(Spanned([tag |-> "Any",
                     span |-> SpanSince(s, i, AfterOrNot(a, i) + 1)],
                    SpanSince(s, i, AfterOrNot(a, i) + 1)),
            AfterOrNot(a, i) + 1)
  ELSE IF ~a.ok
    THEN Ok(Spanned([tag |-> "PortOpenRange", port |-> b.val[1].port,
                     span |-> b.val[1].span, up |-> FALSE],
                    b.val[1].span), b.pos)
  ELSE IF ~b.ok
    THEN Ok(Spanned([tag |-> "PortOpenRange", port |-> a.val[1].port,
                     span |-> a.val[1].span, up |-> FALSE],
                    a.val[1].span), a.pos + 1)
  ELSE Ok(Spanned([tag |-> "PortRange",
                   from |-> a.val[1].port, fromspan |-> a.val[1].span,
                   to |-> b.val[1].port, tospan |-> b.val[1].span],
                  SpanSince(s, i, b.pos)), b.pos)

\* the try_map of `port_range` (parser.rs, 201-220) on the optional numbers a
\* and b around the ":": ":" alone is rejected, an open range carries the
\* span of its number and the flag false on both sides
PortRangeMap(s, i, a, b) ==
  IF b.panic THEN Panic
  ELSE IF ~a.ok /\ ~b.ok THEN Fail
  ELSE IF ~a.ok
    THEN Ok(Spanned([tag |-> "PortOpenRange", port |-> b.val[1].port,
                     span |-> b.val[1].span, up |-> FALSE],
                    b.val[1].span), b.pos)
  ELSE IF ~b.ok
    THEN Ok(Spanned([tag |-> "PortOpenRange", port |-> a.val[1].port,
                     span |-> a.val[1].span, up |-> FALSE],
                    a.val[1].span), a.pos + 1)
  ELSE Ok(Spanned([tag |-> "PortRange",
                   from |-> a.val[1].port, fromspan |-> a.val[1].span,
                   to |-> b.val[1].port, tospan |-> b.val[1].span],
                  SpanSince(s, i, b.pos)), b.pos)

\* `port_range`: number.or_not(), ":", number.or_not(), and the try_map
PortRange(s, i) ==
  Bind(Number(s, i), LAMBDA a :
    IF a.panic THEN Panic
    ELSE IF At(s, AfterOrNot(a, i)) # ":" THEN Fail
    ELSE PortRangeMap(s, i, a, Number(s, AfterOrNot(a, i) + 1)))

\* `port_variable`: "$" and an identifier; the span includes the "$"
PortVariable(s, i) ==
  IF At(s, i) # "$" THEN Fail
  ELSE Bind(TextIdent(s, i + 1), LAMBDA e :
         IF e < 0 THEN Fail
         ELSE Ok(Spanned([tag |-> "PortVar", name |-> Slice(s, i + 1, e),
                          span |-> SpanSince(s, i, e)],
                         SpanSince(s, i, e)), e))

RECURSIVE NetworkPortParser(_, _)
RECURSIVE PortGroupRest(_, _, _)
RECURSIVE PortGroup(_, _)
RECURSIVE NegatedPort(_, _)

\* the items of `port_group` after the first one:
\* separated_by(just(",")).allow_trailing()
PortGroupRest(s, p, acc) ==
  IF At(s, p) # "," THEN Ok(acc, p)
  ELSE Bind(NetworkPortParser(s, p + 1), LAMBDA r :
         IF r.panic THEN Panic
         ELSE IF r.ok THEN PortGroupRest(s, r.pos, Append(acc, r.val[1]))
         ELSE Ok(acc, p + 1))

\* the items of `port_group`, f being the result of the first one
PortGroupItems(s, i, f) ==
  IF f.panic THEN Panic
  ELSE IF f.ok THEN PortGroupRest(s, f.pos, <<f.val[1]>>)
  ELSE Ok(<<>>, i + 1)

\* `port_group`: "[" items "]"
PortGroup(s, i) ==
  IF At(s, i) # "[" THEN Fail
  ELSE Bind(PortGroupItems(s, i, NetworkPortParser(s, i + 1)), LAMBDA items :
         IF items.panic THEN Panic
         ELSE IF At(s, items.pos) # "]" THEN Fail
         ELSE Ok(Spanned([tag |-> "PortGroup", items |-> items.val[1]],
                         SpanSince(s, i, items.pos + 1)), items.pos + 1))

\* `negated_port`: "!" and one of port_variable, port_group, port_range,
\* port_number
NegatedPort(s, i) ==
  IF At(s, i) # "!" THEN Fail
  ELSE Bind(Or(PortVariable(s, i + 1),
            Or(PortGroup(s, i + 1),
            Or(PortRange(s, i + 1),
               PortNumber(s, i + 1)))), LAMBDA r :
         IF r.panic THEN Panic
         ELSE IF ~r.ok THEN Fail
         ELSE Ok(Spanned([tag |-> "NegPort", child |-> r.val[1]],
                         SpanSince(s, i, r.pos)), r.pos))

\* the alternatives of the port parser in order, at offset i
PortAlternatives(s, i) ==
  Or(NegatedPort(s, i),
  Or(PortVariable(s, i),
  Or(PortGroup(s, i),
  Or(PortRange(s, i),
  Or(PortNumber(s, i),
     PortAny(s, i))))))

\* the port parser: the alternatives, then padded()
NetworkPortParser(s, i) == Padded(s, PortAlternatives(s, SkipWs(s, i)))

\* ------------------------------------------------------------------------
\* NetworkDirection::parser (src/src/parser.rs, 257-270)
\* ------------------------------------------------------------------------

\* the direction a run of the characters of "<->" stands for
DirectionTag(dir) ==
  IF dir = <<"-", ">">> THEN "SrcToDst"
  ELSE IF dir = <<"<", ">">> THEN "Both"
  ELSE IF dir = <<"<", "-">> THEN "DstToSrc"
  ELSE "Unrecognized"

\* one_of("<->").repeated(): the run may be empty, so the parser always
\* matches; a run that is none of "->", "<>", "<-" is kept as Unrecognized
NetworkDirectionParser(s, i) ==
  Bind(SkipWhile(s, i, {"<", "-", ">"}), LAMBDA e :
    Ok(Spanned([tag |-> DirectionTag(Slice(s, i, e)), text |-> Slice(s, i, e)],
               SpanSince(s, i, e)), e))

\* ------------------------------------------------------------------------
\* RuleOption::parser (src/src/parser.rs, 272-331)
\* ------------------------------------------------------------------------

\* the characters `escaped_chars` accepts after a backslash
EscapableChars == {"\"", ";", "\\"}

\* the characters that end a bare value: none_of(";,")
OtherStops == {";", ","}

\* (escaped_chars.or(none_of(stops))).repeated(): a backslash followed by an
\* escapable character yields that character, any other character outside
\* stops yields itself.  The result is <<text, offset after the run>>.
RECURSIVE ValueChars(_, _, _, _)
ValueChars(s, i, stops, acc) ==
  IF At(s, i) = "\\" /\ At(s, i + 1) \in EscapableChars
  THEN ValueChars(s, i + 2, stops, Append(acc, At(s, i + 1)))
  ELSE IF i < Len(s) /\ At(s, i) \notin stops
  THEN ValueChars(s, i + 1, stops, Append(acc, At(s, i)))
  ELSE <<acc, i>>

\* `unescaped_value`: OptionsVariable::Other
UnescapedValue(s, i) ==
  Bind(ValueChars(s, i, OtherStops, <<>>), LAMBDA r :
    Ok(Spanned([tag |-> "Other", text |-> r[1], span |-> SpanSince(s, i, r[2])],
               SpanSince(s, i, r[2])), r[2]))

\* the quoted text of `string_value` that opens at offset i; i0 is the offset
\* before the padding in front of it
QuotedText(s, i0, i) ==
  IF At(s, i) # "\"" THEN Fail
  ELSE Bind(ValueChars(s, i + 1, {"\""}, <<>>), LAMBDA r :
         IF At(s, r[2]) # "\"" THEN Fail
         ELSE Ok(Spanned([tag |-> "String", text |-> r[1],
                          span |-> SpanSince(s, i0, SkipWs(s, r[2] + 1))],
                         SpanSince(s, i0, SkipWs(s, r[2] + 1))),
                 SkipWs(s, r[2] + 1)))

\* `string_value`: OptionsVariable::String, a quoted text; padded() lies
\* inside map_with_span, so the span includes the padding
StringValue(s, i) == QuotedText(s, i, SkipWs(s, i))

\* string_value.or(unescaped_value) at offset i
StringOrOther(s, i) == Or(StringValue(s, i), UnescapedValue(s, i))

\* one value of a keyword pair: string_value.or(unescaped_value).padded()
OptionValue(s, i) == Padded(s, StringOrOther(s, SkipWs(s, i)))

\* the values after the first one: separated_by(just(","))
RECURSIVE OptionValuesRest(_, _, _)
OptionValuesRest(s, p, acc) ==
  IF At(s, p) # "," THEN Ok(acc, p)
  ELSE Bind(OptionValue(s, p + 1), LAMBDA r :
         OptionValuesRest(s, r.pos, Append(acc, r.val[1])))

\* the offset after the longest run of characters outside cs
RECURSIVE SkipUntil(_, _, _)
SkipUntil(s, i, cs) ==
  IF i < Len(s) /\ s[i + 1] \notin cs THEN SkipUntil(s, i + 1, cs) ELSE i

\* the keyword that starts at offset i after the padding from offset i0 on and
\* ends at offset e
KeywordText(s, i0, i, e) ==
  Ok([text |-> Slice(s, i, e), span |-> SpanSince(s, i0, SkipWs(s, e))],
     SkipWs(s, e))

\* `keyword`: none_of(":;)").repeated().padded() with its span, [text, span]
Keyword(s, i) ==
  KeywordText(s, i, SkipWs(s, i), SkipUntil(s, SkipWs(s, i), {":", ";", ")"}))

\* the values of a keyword pair, f being the result of the first one
OptionValues(s, f) == OptionValuesRest(s, f.pos, <<f.val[1]>>)

\* `keyword_pair`: keyword, ":", values
KeywordPair(s, i) ==
  Bind(Keyword(s, i), LAMBDA k :
    IF At(s, k.pos) # ":" THEN Fail
    ELSE Bind(OptionValues(s, OptionValue(s, k.pos + 1)), LAMBDA vs :
           Ok(Spanned([tag |-> "KeywordPair", keyword |-> k.val[1].text,
                       kwspan |-> k.val[1].span, values |-> vs.val[1]],
                      SpanSince(s, i, SkipWs(s, vs.pos))), SkipWs(s, vs.pos))))

\* `buffer`: a keyword alone
Buffer(s, i) ==
  Bind(Keyword(s, i), LAMBDA k :
    Ok(Spanned([tag |-> "Buffer", keyword |-> k.val[1].text,
                kwspan |-> k.val[1].span], SpanSince(s, i, k.pos)), k.pos))

\* keyword_pair.or(buffer)
RuleOptionParser(s, i) == Or(KeywordPair(s, i), Buffer(s, i))

\* ------------------------------------------------------------------------
\* Header::parser and Rule::parser (src/src/parser.rs, 22-83)
\* ------------------------------------------------------------------------

\* p.or_not() applied to the result r of p at offset i
OrNot(r, i) ==
  IF r.panic THEN Panic
  ELSE IF r.ok THEN Ok(Some(r.val[1]), r.pos)
  ELSE Ok(None, i)

\* `protocol`: text::ident() with its span
Protocol(s, i) ==
  Bind(TextIdent(s, i), LAMBDA e :
    IF e < 0 THEN Fail
    ELSE Ok(Spanned(Slice(s, i, e), SpanSince(s, i, e)), e))

\* `address_port_combined`: address.or_not().padded(), port.or_not().padded();
\* the value is <<address, port>>
AddressPortCombined(s, i) ==
  Bind(OrNot(NetworkAddressParser(s, SkipWs(s, i)), SkipWs(s, i)), LAMBDA a :
    IF a.panic THEN Panic
    ELSE Bind(OrNot(NetworkPortParser(s, SkipWs(s, a.pos)), SkipWs(s, a.pos)),
              LAMBDA p :
           IF p.panic THEN Panic
           ELSE Ok(<<a.val[1], p.val[1]>>, SkipWs(s, p.pos))))

\* Header::parser: protocol.or_not(), source, direction.or_not(), destination
HeaderParser(s, i) ==
  Bind(OrNot(Protocol(s, i), i), LAMBDA pr :
    Bind(AddressPortCombined(s, pr.pos), LAMBDA src :
      IF src.panic THEN Panic
      ELSE Bind(OrNot(NetworkDirectionParser(s, SkipWs(s, src.pos)),
                      SkipWs(s, src.pos)), LAMBDA dir :
             Bind(AddressPortCombined(s, SkipWs(s, dir.pos)), LAMBDA dst :
               IF dst.panic THEN Panic
               ELSE Ok(Spanned([protocol |-> pr.val[1],
                                source |-> src.val[1][1],
                                source_port |-> src.val[1][2],
                                direction |-> dir.val[1],
                                destination |-> dst.val[1][1],
                                destination_port |-> dst.val[1][2]],
                               SpanSince(s, i, dst.pos)), dst.pos)))))

\* Action::from_str (src/src/rule/action.rs, 35-51)
ActionNames ==
  [Alert |-> <<"a", "l", "e", "r", "t">>,
   Pass |-> <<"p", "a", "s", "s">>,
   Drop |-> <<"d", "r", "o", "p">>,
   Reject |-> <<"r", "e", "j", "e", "c", "t">>,
   Rejectsrc |-> <<"r", "e", "j", "e", "c", "t", "s", "r", "c">>,
   Rejectdst |-> <<"r", "e", "j", "e", "c", "t", "d", "s", "t">>,
   Rejectboth |-> <<"r", "e", "j", "e", "c", "t", "b", "o", "t", "h">>]

ActionFromStr(t) ==
  IF \E k \in DOMAIN ActionNames : ActionNames[k] = t
  THEN [tag |-> CHOOSE k \in DOMAIN ActionNames : ActionNames[k] = t,
        name |-> <<>>]
  ELSE [tag |-> "Other", name |-> t]

\* the action whose identifier starts at offset i, after the padding from
\* offset i0 on, and ends at offset e
ActionIdent(s, i0, i, e) ==
  IF e < 0 THEN Fail
  ELSE Ok(Spanned(ActionFromStr(Slice(s, i, e)), SpanSince(s, i0, SkipWs(s, e))),
          SkipWs(s, e))

\* `action`: text::ident().padded() with its span
ActionParser(s, i) == ActionIdent(s, i, SkipWs(s, i), TextIdent(s, SkipWs(s, i)))

\* the options after the first one: separated_by(just(";")).allow_trailing();
\* an option matches the empty text, so an item after ";" is always found
RECURSIVE OptionsRest(_, _, _)
OptionsRest(s, p, acc) ==
  IF At(s, p) # ";" THEN Ok(acc, p)
  ELSE Bind(RuleOptionParser(s, p + 1), LAMBDA r :
         OptionsRest(s, r.pos, Append(acc, r.val[1])))

\* the options of a list, f being the result of the first one
OptionItems(s, f) == OptionsRest(s, f.pos, <<f.val[1]>>)

\* the option list that opens at offset i
DelimitedOptions(s, i) ==
  IF At(s, i) # "(" THEN Fail
  ELSE Bind(OptionItems(s, RuleOptionParser(s, i + 1)), LAMBDA items :
         IF At(s, items.pos) # ")" THEN Fail
         ELSE Ok(items.val[1], SkipWs(s, items.pos + 1)))

\* `options`: "(" options ")", padded
OptionsParser(s, i) == DelimitedOptions(s, SkipWs(s, i))

\* Rule::parser: action.or_not(), header.padded(), options.or_not(), end()
RuleParser(s) ==
  Bind(OrNot(ActionParser(s, 0), 0), LAMBDA act :
    Bind(HeaderParser(s, SkipWs(s, act.pos)), LAMBDA hdr :
      IF hdr.panic THEN Panic
      ELSE Bind(OrNot(OptionsParser(s, SkipWs(s, hdr.pos)), SkipWs(s, hdr.pos)),
                LAMBDA opt :
             IF opt.pos # Len(s) THEN Fail
             ELSE Ok(Spanned([action |-> act.val[1],
                              header |-> hdr.val[1],
                              options |-> opt.val[1]],
                             SpanSince(s, 0, opt.pos)), opt.pos))))

\* ------------------------------------------------------------------------
\* Display (src/src/rule/mod.rs 75-96, header.rs, options.rs, action.rs)
\* ------------------------------------------------------------------------

\* str::replace(from, to) for a one-character pattern
RECURSIVE Replace(_, _, _)
Replace(t, from, to) ==
  IF t = <<>> THEN <<>>
  ELSE (IF t[1] = from THEN to ELSE <<t[1]>>) \o Replace(Tail(t), from, to)

\* Display of OptionsVariable that escapes the quote and ";" only
OptionsVariableToStringNoBackslash(v) ==
  IF v.tag = "String"
  THEN <<"\"">>
       \o Replace(Replace(v.text, "\"", <<"\\", "\"">>), ";", <<"\\", ";">>)
       \o <<"\"">>
  ELSE v.text

\* Display of OptionsVariable: a String is quoted and escapes "\", the quote
\* and ";" in this order; an Other prints as it is
OptionsVariableToString(v) ==
  IF v.tag = "String"
  THEN <<"\"">>
       \o Replace(Replace(Replace(v.text, "\\", <<"\\", "\\">>),
                          "\"", <<"\\", "\"">>),
                  ";", <<"\\", ";">>)
       \o <<"\"">>
  ELSE v.text

\* Display of RuleOption
RuleOptionToString(o) ==
  IF o.tag = "KeywordPair"
  THEN o.keyword \o <<":", " ">>
       \o Join([k \in 1..Len(o.values) |->
                  OptionsVariableToString(o.values[k].node)], <<",", " ">>)
  ELSE o.keyword

\* Display of NetworkAddress
RECURSIVE NetworkAddressToString(_)
NetworkAddressToString(a) ==
  CASE a.tag = "Any" -> <<"a", "n", "y">>
    [] a.tag = "IPAddr" -> IpToString(a.ip)
    [] a.tag = "CIDR" -> IpToString(a.ip) \o <<"/">> \o NumToStr(a.mask, 10)
    [] a.tag = "IPGroup" ->
         <<"[">>
         \o Join([k \in 1..Len(a.items) |->
                    NetworkAddressToString(a.items[k].node)], <<",", " ">>)
         \o <<"]">>
    [] a.tag = "NegIP" -> <<"!">> \o NetworkAddressToString(a.child.node)
    [] a.tag = "IPVariable" -> <<"$">> \o a.name

\* Display of NetworkPort
RECURSIVE NetworkPortToString(_)
NetworkPortToString(p) ==
  CASE p.tag = "Any" -> <<"a", "n", "y">>
    [] p.tag = "Port" -> NumToStr(p.port, 10)
    [] p.tag = "PortGroup" ->
         <<"[">>
         \o Join([k \in 1..Len(p.items) |->
                    NetworkPortToString(p.items[k].node)], <<",">>)
         \o <<"]">>
    [] p.tag = "PortRange" ->
         NumToStr(p.from, 10) \o <<":">> \o NumToStr(p.to, 10)
    [] p.tag = "PortOpenRange" ->
         IF p.up THEN NumToStr(p.port, 10) \o <<":">>
         ELSE <<":">> \o NumToStr(p.port, 10)
    [] p.tag = "NegPort" -> <<"!">> \o NetworkPortToString(p.child.node)
    [] p.tag = "PortVar" -> <<"$">> \o p.name

\* Display of NetworkDirection
NetworkDirectionToString(d) ==
  CASE d.tag = "SrcToDst" -> <<"-", ">">>
    [] d.tag = "Both" -> <<"<", ">">>
    [] d.tag = "DstToSrc" -> <<"<", "-">>
    [] d.tag = "Unrecognized" -> d.text

\* Display of Action
ActionToString(a) == IF a.tag = "Other" THEN a.name ELSE ActionNames[a.tag]

\* Display of Header: every present field followed by a space
HeaderToString(h) ==
  (IF h.protocol = None THEN <<>> ELSE h.protocol[1].node \o <<" ">>)
  \o (IF h.source = None THEN <<>>
      ELSE NetworkAddressToString(h.source[1].node) \o <<" ">>)
  \o (IF h.source_port = None THEN <<>>
      ELSE NetworkPortToString(h.source_port[1].node) \o <<" ">>)
  \o (IF h.direction = None THEN <<>>
      ELSE NetworkDirectionToString(h.direction[1].node) \o <<" ">>)
  \o (IF h.destination = None THEN <<>>
      ELSE NetworkAddressToString(h.destination[1].node) \o <<" ">>)
  \o (IF h.destination_port = None THEN <<>>
      ELSE NetworkPortToString(h.destination_port[1].node) \o <<" ">>)

\* Display of Rule
RuleToString(r) ==
  (IF r.action = None THEN <<>>
   ELSE ActionToString(r.action[1].node) \o <<" ">>)
  \o HeaderToString(r.header.node)
  \o (IF r.options = None THEN <<>>
      ELSE IF r.options[1] = <<>> THEN <<"(", ")">>
      ELSE <<"(">>
           \o Join([k \in 1..Len(r.options[1]) |->
                      RuleOptionToString(r.options[1][k].node)], <<";", " ">>)
           \o <<";", ")">>)

\* ------------------------------------------------------------------------
\* find_variables (src/src/rule/header.rs, 192-229 and 400-437)
\* ------------------------------------------------------------------------

\* the push of a variable leaf that compares no name
PushVariableAny(var, name, vector) ==
  Append(vector, [name |-> var.name, span |-> var.span])

\* the push of a variable leaf: with Some(name) only an equal name is pushed
PushVariable(var, name, vector) ==
  IF name = None \/ name[1] = var.name
  THEN Append(vector, [name |-> var.name, span |-> var.span])
  ELSE vector

\* NetworkAddress::find_variables_with_array: the vector after the call
RECURSIVE AddressFindVariablesWithArray(_, _, _)
RECURSIVE AddressGroupFindVariables(_, _, _)
AddressGroupFindVariables(group, name, vector) ==
  IF group = <<>> THEN vector
  ELSE AddressGroupFindVariables(Tail(group), name,
         AddressFindVariablesWithArray(group[1].node, name, vector))

AddressFindVariablesWithArray(a, name, vector) ==
  CASE a.tag = "IPGroup" -> AddressGroupFindVariables(a.items, name, vector)
    [] a.tag = "NegIP" -> AddressFindVariablesWithArray(a.child.node, name, vector)
    [] a.tag = "IPVariable" -> PushVariable(a, name, vector)
    [] OTHER -> vector

\* NetworkAddress::find_variables: None for an empty vector
AddressFindVariables(a, name) ==
  LET ret == AddressFindVariablesWithArray(a, name, <<>>)
  IN IF Len(ret) = 0 THEN None ELSE Some(ret)

\* NetworkPort::find_variables_with_array: the vector after the call
RECURSIVE PortFindVariablesWithArray(_, _, _)
RECURSIVE PortGroupFindVariables(_, _, _)
PortGroupFindVariables(group, name, vector) ==
  IF group = <<>> THEN vector
  ELSE PortGroupFindVariables(Tail(group), name,
         PortFindVariablesWithArray(group[1].node, name, vector))

PortFindVariablesWithArray(p, name, vector) ==
  CASE p.tag = "PortGroup" -> PortGroupFindVariables(p.items, name, vector)
    [] p.tag = "NegPort" -> PortFindVariablesWithArray(p.child.node, name, vector)
    [] p.tag = "PortVar" -> PushVariable(p, name, vector)
    [] OTHER -> vector

\* NetworkPort::find_variables: None for an empty vector
PortFindVariables(p, name) ==
  LET ret == PortFindVariablesWithArray(p, name, <<>>)
  IN IF Len(ret) = 0 THEN None ELSE Some(ret)

\* ------------------------------------------------------------------------
\* Inputs: the lines given to the parser
\* ------------------------------------------------------------------------

\* the texts of an address field: every variant of NetworkAddress, an octet
\* and a mask out of range, and the absent field
AddrShapes ==
  {<<"a", "n", "y">>,
   <<"1", ".", "2", ".", "3", ".", "4">>,
   <<"1", ".", "2", ".", "3", ".", "2", "5", "6">>,
   <<"1", "0", ".", "0", ".", "0", ".", "0", "/", "8">>,
   <<"1", ".", "2", ".", "3", ".", "4", "/", "2", "5", "6">>,
   <<"$", "A">>,
   <<"!", "$", "A">>,
   <<"[", "$", "A", ",", " ", "1", ".", "2", ".", "3", ".", "4", "]">>,
   <<"!", "[", "1", "0", ".", "0", ".", "0", ".", "0", "/", "8", ",", "a", "n", "y", "]">>,
   <<":", ":", "1">>,
   <<"1", ":", ":">>,
   <<":", ":", "f", "f", "f", "f", ":", "1", ":", "2">>,
   <<>>}

\* the texts of a port field: every variant of NetworkPort, a port out of
\* range, ":" alone, and the absent field
PortShapes ==
  {<<"a", "n", "y">>,
   <<"8", "0">>,
   <<"6", "5", "5", "3", "5">>,
   <<"6", "5", "5", "3", "6">>,
   <<"1", ":">>,
   <<":", "2">>,
   <<"1", ":", "2">>,
   <<":">>,
   <<"$", "P">>,
   <<"!", "8", "0">>,
   <<"[", "8", "0", ",", "$", "P", "]">>,
   <<"!", "1", ":">>,
   <<"[", "1", ":", ",", ":", "2", "]">>,
   <<>>}

\* the texts of a direction field
DirShapes ==
  {<<"-", ">">>,
   <<"<", ">">>,
   <<"<", "-">>,
   <<"<", "<", "-">>,
   <<>>}

\* the texts of one option: a buffer, pairs with bare and quoted values,
\* escapes, and the empty option
OptShapes ==
  {<<>>,
   <<"s", "i", "d">>,
   <<"s", "i", "d", ":", "1">>,
   <<"m", "s", "g", ":", " ", "\"", "a", ";", "b", "\"", " ">>,
   <<"a", ":", "x", "\\", ";", "y">>,
   <<"a", ":", "1", ",", " ", "\"", "b", "\\", "\"", "\"", ",", "c">>,
   <<" ", "b", " ", ":", " ", "\\", "\\", " ">>}

\* lines of a document being typed: blank lines, comments, partial rules
OddLines ==
  {<<>>,
   <<" ", " ">>,
   <<"#", " ", "c">>,
   <<"#", "a", "l", "e", "r", "t", " ", "t", "c", "p", " ", "a", "n", "y", " ", "a", "n", "y", " ", "-", ">", " ", "a", "n", "y", " ", "a", "n", "y">>,
   <<"a", "l", "e", "r", "t">>,
   <<"a", "l", "e", "r", "t", " ", "t", "c", "p">>,
   <<" ", "a", "l", "e", "r", "t", " ", " ", "t", "c", "p", " ", " ", "a", "n", "y">>,
   <<"t", "c", "p", " ", "a", "n", "y", " ", "a", "n", "y">>,
   <<"$", "A", " ", "$", "P", " ", "-", ">", " ", "$", "A", " ", "$", "P">>,
   <<"a", "l", "e", "r", "t", " ", "t", "c", "p", " ", "a", "n", "y", " ", "a", "n", "y", " ", "-", ">", " ", "a", "n", "y", " ", "a", "n", "y", " ", "(", "s", "i", "d", ":", "1", ")">>,
   <<"a", "l", "e", "r", "t", " ", "t", "c", "p", " ", "a", "n", "y", " ", "a", "n", "y", " ", "-", ">", " ", "a", "n", "y", " ", "a", "n", "y", " ", "(">>,
   <<"a", "l", "e", "r", "t", " ", "t", "c", "p", " ", "a", "n", "y", " ", "a", "n", "y", " ", "-", ">", " ", "a", "n", "y", " ", "a", "n", "y", " ", "x">>,
   <<"a", "l", "e", "r", "t", " ", "t", "c", "p", " ", ":", " ", "-", ">", " ", "a", "n", "y", " ", "a", "n", "y">>,
   <<"a", "l", "e", "r", "t", " ", "t", "c", "p", " ", "a", "n", "y", " ", "a", "n", "y", " ", "-", ">", " ", ":">>,
   <<"a", "l", "e", "r", "t", " ", "t", "c", "p", " ", "a", "n", "y", " ", ":">>,
   <<"a", "l", "e", "r", "t", " ", "t", "c", "p", " ", "a", "n", "y", " ", "a", "n", "y", " ", "-", ">", " ", "a", "n", "y", " ", "a", "n", "y", " ", "(", ")">>,
   <<"a", "l", "e", "r", "t", " ", "t", "c", "p", " ", "a", "n", "y", " ", "a", "n", "y", " ", "-", ">", " ", "a", "n", "y", " ", "a", "n", "y", " ", "(", "a", ":", "b", ",", "c", ";", "d", ";", ")">>}

\* the start of a generated line
HeadText == <<"a", "l", "e", "r", "t", " ", "t", "c", "p", " ">>

\* the destination of a generated line
DstText == <<" ", "-", ">", " ", "a", "n", "y", " ", "a", "n", "y">>

\* the source of a generated line
SrcText == <<"a", "l", "e", "r", "t", " ", "t", "c", "p", " ", "a", "n", "y", " ", "a", "n", "y", " ">>

\* the header of a generated line
RuleText == <<"a", "l", "e", "r", "t", " ", "t", "c", "p", " ", "a", "n", "y", " ", "a", "n", "y", " ", "-", ">", " ", "a", "n", "y", " ", "a", "n", "y", " ">>

\* the option lists of n options
RECURSIVE OptTexts(_)
OptTexts(n) ==
  IF n = 1 THEN OptShapes
  ELSE {a \o <<";">> \o b : a \in OptTexts(n - 1), b \in OptShapes}

\* lines that vary the source address and port
SourceLines ==
  {HeadText \o a \o <<" ">> \o p \o DstText : a \in AddrShapes, p \in PortShapes}

\* lines that vary the direction and the destination
DestinationLines ==
  {SrcText \o d \o <<" ">> \o a \o <<" ">> \o p :
     d \in DirShapes,
     a \in {<<"a", "n", "y">>, <<"$", "A">>, <<>>},
     p \in {<<"a", "n", "y">>, <<"1", ":">>, <<":">>, <<>>}}

\* lines that vary the options, with and without the trailing ";"
OptionLines ==
  {RuleText \o <<"(">> \o o \o e \o <<")">> :
     o \in UNION {OptTexts(n) : n \in 1..MaxOpts}, e \in {<<>>, <<";">>}}

RuleLines == SourceLines \cup DestinationLines \cup OptionLines \cup OddLines

\* ------------------------------------------------------------------------
\* State
\* ------------------------------------------------------------------------

VARIABLES
  line,         \* the text given to a parser
  pc,           \* what has been done with the input
  parsed,       \* the result of Rule::parser().parse_recovery(line)
  formatted,    \* Some(rule.to_string()), or None
  reparsed,     \* the result of parsing the formatted text
  kind,         \* "address" or "port": the parser that reads a header field
  tree,         \* Some(the Spanned<NetworkAddress> or <NetworkPort>), or None
  found,        \* the name filter and the result of find_variables
  value,        \* the content of an OptionsVariable::String
  valueText,    \* Some(its Display text), or None
  valueParsed,  \* the result of parsing the Display text as an option value
  document_map,        \* Backend.document_map: uri -> text of the document
  ast_map,             \* Backend.ast_map: uri -> AST
  semantic_token_map,  \* Backend.semantic_token_map: uri -> tokens
  client,              \* uri -> the diagnostics last published to the client
  task,                \* the call of on_change in progress, its locals
  keywords,            \* Backend.keywords: name -> Keyword
  reply,               \* Some(the result of the last query), or None
  calls                \* the calls of on_change that run concurrently

ruleVars == <<parsed, formatted, reparsed>>

treeVars == <<kind, tree, found>>

valueVars == <<value, valueText, valueParsed>>

docVars == <<document_map, ast_map, semantic_token_map, client, task,
             keywords, reply, calls>>

vars == <<line, pc, ruleVars, treeVars, valueVars, docVars>>

\* parse_recovery (src/src/main.rs, 460): a Rule, a failure with errors, or
\* the panic of an unwrap() in a closure of the parser
ParseRecovery(s) ==
  Bind(RuleParser(s), LAMBDA r :
    [outcome |-> IF r.panic THEN "abort" ELSE IF r.ok THEN "rule" ELSE "failure",
     rule |-> IF r.ok THEN Some(r.val[1]) ELSE None])

NotParsed == [outcome |-> "none", rule |-> None]

NotSearched == [filter |-> None, result |-> None]

NoRule == parsed = NotParsed /\ formatted = None /\ reparsed = NotParsed

NoTree == kind = "none" /\ tree = None /\ found = NotSearched

NoValue == value = <<>> /\ valueText = None /\ valueParsed = None

\* an empty map
EmptyMap == [u \in {} |-> None]

\* no call of on_change is in progress
Idle == [pc |-> "idle", version |-> 0]

NoDoc ==
  /\ document_map = EmptyMap /\ ast_map = EmptyMap
  /\ semantic_token_map = EmptyMap /\ client = EmptyMap
  /\ task = Idle
  /\ keywords = EmptyMap /\ reply = None
  /\ calls = <<>>

\* ------------------------------------------------------------------------
\* Spec: a line is parsed, rendered and parsed again
\* ------------------------------------------------------------------------

Init ==
  /\ line \in RuleLines
  /\ pc = "typed"
  /\ NoRule /\ NoTree /\ NoValue /\ NoDoc

\* the line is parsed (Backend::on_change, src/src/main.rs 459-461)
ParseLine ==
  /\ pc = "typed"
  /\ parsed' = ParseRecovery(line)
  /\ pc' = "parsed"
  /\ UNCHANGED <<line, formatted, reparsed, treeVars, valueVars, docVars>>

\* the rule of the line is rendered (Backend::formatting, src/src/main.rs 243)
FormatLine ==
  /\ pc = "parsed"
  /\ parsed.outcome = "rule"
  /\ formatted' = Some(RuleToString(parsed.rule[1].node))
  /\ pc' = "formatted"
  /\ UNCHANGED <<line, parsed, reparsed, treeVars, valueVars, docVars>>

\* the rendered text is parsed again
ReparseLine ==
  /\ pc = "formatted"
  /\ reparsed' = ParseRecovery(formatted[1])
  /\ pc' = "reparsed"
  /\ UNCHANGED <<line, parsed, formatted, treeVars, valueVars, docVars>>

Next == ParseLine \/ FormatLine \/ ReparseLine

Spec == Init /\ [][Next]_vars

\* ------------------------------------------------------------------------
\* Values without spans, and the spans of a rule
\* ------------------------------------------------------------------------

\* a NetworkAddress without its spans
RECURSIVE AddressValue(_)
AddressValue(a) ==
  CASE a.tag = "Any" -> [tag |-> "Any"]
    [] a.tag = "IPAddr" -> [tag |-> "IPAddr", ip |-> a.ip]
    [] a.tag = "CIDR" -> [tag |-> "CIDR", ip |-> a.ip, mask |-> a.mask]
    [] a.tag = "IPGroup" ->
         [tag |-> "IPGroup",
          items |-> [k \in 1..Len(a.items) |-> AddressValue(a.items[k].node)]]
    [] a.tag = "NegIP" -> [tag |-> "NegIP", child |-> AddressValue(a.child.node)]
    [] a.tag = "IPVariable" -> [tag |-> "IPVariable", name |-> a.name]

\* a NetworkPort without its spans
RECURSIVE PortValue(_)
PortValue(p) ==
  CASE p.tag = "Any" -> [tag |-> "Any"]
    [] p.tag = "Port" -> [tag |-> "Port", port |-> p.port]
    [] p.tag = "PortGroup" ->
         [tag |-> "PortGroup",
          items |-> [k \in 1..Len(p.items) |-> PortValue(p.items[k].node)]]
    [] p.tag = "PortRange" -> [tag |-> "PortRange", from |-> p.from, to |-> p.to]
    [] p.tag = "PortOpenRange" ->
         [tag |-> "PortOpenRange", port |-> p.port, up |-> p.up]
    [] p.tag = "NegPort" -> [tag |-> "NegPort", child |-> PortValue(p.child.node)]
    [] p.tag = "PortVar" -> [tag |-> "PortVar", name |-> p.name]

\* a RuleOption without its spans
RuleOptionValue(o) ==
  IF o.tag = "KeywordPair"
  THEN [tag |-> "KeywordPair", keyword |-> o.keyword,
        values |-> [k \in 1..Len(o.values) |->
                      [tag |-> o.values[k].node.tag,
                       text |-> o.values[k].node.text]]]
  ELSE [tag |-> "Buffer", keyword |-> o.keyword]

\* a Rule without its spans: the action, the six header fields, the options
RuleValue(r) ==
  LET h == r.header.node
  IN [action |-> IF r.action = None THEN None ELSE Some(r.action[1].node),
      protocol |-> IF h.protocol = None THEN None ELSE Some(h.protocol[1].node),
      source |-> IF h.source = None THEN None
                 ELSE Some(AddressValue(h.source[1].node)),
      source_port |-> IF h.source_port = None THEN None
                      ELSE Some(PortValue(h.source_port[1].node)),
      direction |-> IF h.direction = None THEN None
                    ELSE Some(h.direction[1].node),
      destination |-> IF h.destination = None THEN None
                      ELSE Some(AddressValue(h.destination[1].node)),
      destination_port |-> IF h.destination_port = None THEN None
                           ELSE Some(PortValue(h.destination_port[1].node)),
      options |-> IF r.options = None THEN None
                  ELSE Some([k \in 1..Len(r.options[1]) |->
                               RuleOptionValue(r.options[1][k].node)])]

\* the spans of a Spanned<NetworkAddress>, at every depth
RECURSIVE AddressSpans(_)
AddressSpans(x) ==
  {x.span} \cup
  CASE x.node.tag = "IPGroup" ->
         UNION {AddressSpans(x.node.items[k]) : k \in 1..Len(x.node.items)}
    [] x.node.tag = "NegIP" -> AddressSpans(x.node.child)
    [] x.node.tag = "CIDR" -> {x.node.ipspan, x.node.maskspan}
    [] OTHER -> {x.node.span}

\* the spans of a Spanned<NetworkPort>, at every depth
RECURSIVE PortSpans(_)
PortSpans(x) ==
  {x.span} \cup
  CASE x.node.tag = "PortGroup" ->
         UNION {PortSpans(x.node.items[k]) : k \in 1..Len(x.node.items)}
    [] x.node.tag = "NegPort" -> PortSpans(x.node.child)
    [] x.node.tag = "PortRange" -> {x.node.fromspan, x.node.tospan}
    [] OTHER -> {x.node.span}

\* the spans of a Spanned<RuleOption>
RuleOptionSpans(x) ==
  {x.span, x.node.kwspan} \cup
  (IF x.node.tag = "KeywordPair"
   THEN UNION {{x.node.values[k].span, x.node.values[k].node.span} :
                 k \in 1..Len(x.node.values)}
   ELSE {})

\* the spans of the elements of an Option<Spanned<T>>
OptionSpans(Spans(_), o) == IF o = None THEN {} ELSE Spans(o[1])

PlainSpan(x) == {x.span}

\* every span of a Spanned<Rule>
RuleSpans(x) ==
  LET r == x.node
      h == r.header.node
  IN {x.span, r.header.span}
     \cup OptionSpans(PlainSpan, r.action)
     \cup OptionSpans(PlainSpan, h.protocol)
     \cup OptionSpans(AddressSpans, h.source)
     \cup OptionSpans(PortSpans, h.source_port)
     \cup OptionSpans(PlainSpan, h.direction)
     \cup OptionSpans(AddressSpans, h.destination)
     \cup OptionSpans(PortSpans, h.destination_port)
     \cup (IF r.options = None THEN {}
           ELSE UNION {RuleOptionSpans(r.options[1][k]) :
                         k \in 1..Len(r.options[1])})

\* the Other values of the options of a rule
OtherValues(r) ==
  IF r.options = None THEN {}
  ELSE UNION {IF r.options[1][k].node.tag = "KeywordPair"
              THEN {r.options[1][k].node.values[j].node.text :
                      j \in {j \in 1..Len(r.options[1][k].node.values) :
                               r.options[1][k].node.values[j].node.tag = "Other"}}
              ELSE {} : k \in 1..Len(r.options[1])}

\* the characters of a text
Chars(t) == {t[k] : k \in 1..Len(t)}

\* the line has a field ":" of its header: a colon between whitespace or the
\* ends of the line, before any "("
HasLoneColon(s) ==
  \E i \in 1..Len(s) :
    /\ s[i] = ":"
    /\ i = 1 \/ s[i - 1] \in Whitespace
    /\ i = Len(s) \/ s[i + 1] \in Whitespace
    /\ \A j \in 1..(i - 1) : s[j] # "("

\* the port fields of a parsed header
PortFields(h) ==
  (IF h.source_port = None THEN {} ELSE {h.source_port[1].node})
  \cup (IF h.destination_port = None THEN {} ELSE {h.destination_port[1].node})

\* ------------------------------------------------------------------------
\* Claims checked under Spec
\* ------------------------------------------------------------------------

\* C1: the rendered text of a parsed rule parses again, to a rule with the
\* same action, header fields and options
RoundTrip ==
  pc = "reparsed" =>
    /\ reparsed.outcome = "rule"
    /\ RuleValue(reparsed.rule[1].node) = RuleValue(parsed.rule[1].node)

\* C2: the parser never aborts: a line yields a rule or a failure
ParserNeverAborts ==
  /\ pc # "typed" => parsed.outcome \in {"rule", "failure"}
  /\ pc = "reparsed" => reparsed.outcome \in {"rule", "failure"}

\* C3: a line whose header has a field ":" alone yields no rule, so the
\* field is never read as a port
LoneColonRejected ==
  pc # "typed" /\ HasLoneColon(line) => parsed.outcome # "rule"

\* C3, witness: a line with a ":" field was parsed and failed
LoneColonParsed ==
  pc = "parsed" /\ HasLoneColon(line) /\ parsed.outcome = "failure"

\* C4: `N:` is an open range upward and prints as `N:`, `:N` is an open
\* range downward and prints as `:N`
OpenRangeKeepsDirection ==
  parsed.outcome = "rule" =>
    \A p \in PortFields(parsed.rule[1].node.header.node) :
      p.tag = "PortOpenRange" =>
        LET upward == At(line, p.span.end) = ":"
        IN /\ p.up = upward
           /\ NetworkPortToString(p) =
                IF upward THEN Slice(line, p.span.start, p.span.end + 1)
                ELSE Slice(line, p.span.start - 1, p.span.end)

\* C5: no Other value of a parsed rule contains ";" or ","
OtherValuesStop ==
  parsed.outcome = "rule" =>
    \A v \in OtherValues(parsed.rule[1].node) : Chars(v) \cap {";", ","} = {}

\* C7: a header field is present only if the line has text for it; a line
\* without a direction token has no direction
AbsentFieldIsNone ==
  parsed.outcome = "rule" =>
    LET h == parsed.rule[1].node.header.node
    IN /\ h.protocol # None => h.protocol[1].node # <<>>
       /\ h.direction # None => h.direction[1].node.text # <<>>

\* C9: every span of a parsed rule has start <= end and ends within the line
SpanCoverage ==
  parsed.outcome = "rule" =>
    \A sp \in RuleSpans(parsed.rule[1]) :
      sp.start <= sp.end /\ sp.end <= Len(line)

\* ------------------------------------------------------------------------
\* SpecTree: a header field is parsed and searched for variables
\* ------------------------------------------------------------------------

\* the leaves of the generated trees: two variables and a literal
TreeLeaves(k) ==
  {<<"$", "A">>, <<"$", "B">>,
   IF k = "address" THEN <<"1", ".", "2", ".", "3", ".", "4">> ELSE <<"8", "0">>}

\* the texts of the trees of depth d: a leaf, a negation, a group of a tree
\* and a leaf in either order
RECURSIVE TreeTexts(_, _)
TreeTexts(k, d) ==
  IF d = 0 THEN TreeLeaves(k)
  ELSE LET sub == TreeTexts(k, d - 1)
       IN sub
          \cup {<<"!">> \o x : x \in sub}
          \cup {<<"[">> \o x \o <<",">> \o l \o <<"]">> :
                  x \in sub, l \in TreeLeaves(k)}
          \cup {<<"[">> \o l \o <<",", " ">> \o x \o <<"]">> :
                  x \in sub, l \in TreeLeaves(k)}

\* the names find_variables is asked for; no generated tree has a $C
FilterNames == {<<"A">>, <<"B">>, <<"C">>}

InitTree ==
  /\ kind \in {"address", "port"}
  /\ line \in TreeTexts(kind, MaxDepth)
  /\ pc = "typed"
  /\ tree = None /\ found = NotSearched
  /\ NoRule /\ NoValue /\ NoDoc

\* the field is parsed by NetworkAddress::parser or NetworkPort::parser; a
\* text that is no address or port, or not wholly one, leaves no tree
ParseTree ==
  /\ pc = "typed"
  /\ Bind(IF kind = "address" THEN NetworkAddressParser(line, 0)
          ELSE NetworkPortParser(line, 0), LAMBDA r :
       tree' = IF r.ok /\ r.pos = Len(line) THEN Some(r.val[1]) ELSE None)
  /\ pc' = "parsed"
  /\ UNCHANGED <<line, kind, found, ruleVars, valueVars, docVars>>

\* find_variables(name) on the tree
FindVariables(name) ==
  /\ pc = "parsed"
  /\ tree # None
  /\ found' = [filter |-> name,
               result |-> IF kind = "address"
                          THEN AddressFindVariables(tree[1].node, name)
                          ELSE PortFindVariables(tree[1].node, name)]
  /\ pc' = "searched"
  /\ UNCHANGED <<line, kind, tree, ruleVars, valueVars, docVars>>

NextTree ==
  \/ ParseTree
  \/ FindVariables(None)
  \/ \E n \in FilterNames : FindVariables(Some(n))

SpecTree == InitTree /\ [][NextTree]_vars

\* the "$name" occurrences of a text from offset i on, in text order
RECURSIVE VariableOccurrences(_, _)
VariableOccurrences(s, i) ==
  IF i >= Len(s) THEN <<>>
  ELSE IF s[i + 1] = "$" /\ TextIdent(s, i + 1) >= 0
  THEN <<[name |-> Slice(s, i + 1, TextIdent(s, i + 1)),
          span |-> [start |-> i, end |-> TextIdent(s, i + 1)]]>>
       \o VariableOccurrences(s, TextIdent(s, i + 1))
  ELSE VariableOccurrences(s, i + 1)

\* C10: find_variables returns the variable leaves of the tree once each in
\* the order of the text, with a name only those of that name, and None
\* exactly when there is none
FindVariablesIsFilter ==
  pc = "searched" =>
    LET all == VariableOccurrences(line, 0)
        want == IF found.filter = None THEN all
                ELSE LET n == found.filter[1]
                     IN SelectSeq(all, LAMBDA v : v.name = n)
    IN found.result = IF want = <<>> THEN None ELSE Some(want)

\* C10, witness: a group nested in a group, with a negation, was searched by
\* a name that occurs in it next to another variable
NestedTreeSearched ==
  /\ pc = "searched"
  /\ tree[1].node.tag \in {"IPGroup", "PortGroup"}
  /\ \E k \in 1..Len(tree[1].node.items) :
       tree[1].node.items[k].node.tag \in {"IPGroup", "PortGroup", "NegIP", "NegPort"}
  /\ found.filter # None
  /\ found.result # None
  /\ Len(found.result[1]) < Len(VariableOccurrences(line, 0))

\* ------------------------------------------------------------------------
\* SpecValue: a String value is rendered and parsed
\* ------------------------------------------------------------------------

\* the characters of the generated values: the three that Display escapes,
\* the value separator and a letter
ValueAlphabet == {"\\", "\"", ";", ",", "a"}

\* the texts over the alphabet of length n
RECURSIVE ValuesOfLen(_)
ValuesOfLen(n) ==
  IF n = 0 THEN {<<>>}
  ELSE {Append(v, c) : v \in ValuesOfLen(n - 1), c \in ValueAlphabet}

InitValue ==
  /\ value \in UNION {ValuesOfLen(n) : n \in 0..MaxStr}
  /\ valueText = None /\ valueParsed = None
  /\ line = <<>> /\ pc = "typed"
  /\ NoRule /\ NoTree /\ NoDoc

\* Display of OptionsVariable::String(value)
FormatValue ==
  /\ pc = "typed"
  /\ valueText' = Some(OptionsVariableToString(
                         [tag |-> "String", text |-> value,
                          span |-> [start |-> 0, end |-> 0]]))
  /\ pc' = "formatted"
  /\ UNCHANGED <<line, value, valueParsed, ruleVars, treeVars, docVars>>

\* the text is parsed as the value of a keyword pair
ParseValue ==
  /\ pc = "formatted"
  /\ Bind(OptionValue(valueText[1], 0), LAMBDA r :
       valueParsed' = Some([node |-> r.val[1].node, pos |-> r.pos]))
  /\ pc' = "reparsed"
  /\ UNCHANGED <<line, value, valueText, ruleVars, treeVars, docVars>>

NextValue == FormatValue \/ ParseValue

SpecValue == InitValue /\ [][NextValue]_vars

\* C6: the Display text of String(s) parses, to its end, as a String whose
\* content is s
StringRoundTrip ==
  pc = "reparsed" /\ valueParsed # None =>
    /\ valueParsed[1].node.tag = "String"
    /\ valueParsed[1].node.text = value
    /\ valueParsed[1].pos = Len(valueText[1])

\* C6, witness: a value with a backslash, a quote and a ";" went through
EscapedValueParsed ==
  /\ pc = "reparsed" /\ valueParsed # None
  /\ {"\\", "\"", ";"} \subseteq Chars(value)
  /\ valueParsed[1].node.text = value

\* ------------------------------------------------------------------------
\* Semantic tokens (src/src/semantic_token.rs)
\* ------------------------------------------------------------------------

\* Range::len(): 0 for an empty or reversed range
SpanLen(sp) == IF sp.end > sp.start THEN sp.end - sp.start ELSE 0

\* an ImCompleteSemanticToken; token_type is the name of the LEGEND_TYPE
\* entry whose position the code stores
SemanticToken(sp, col, type) ==
  [start |-> sp.start + col, length |-> SpanLen(sp), token_type |-> type]

\* semantic_token_from_address: the tokens pushed for a spanned address
RECURSIVE SemanticTokenFromAddress(_, _)
SemanticTokenFromAddress(expr, col) ==
  LET address == expr.node
  IN CASE address.tag = "Any" -> <<SemanticToken(expr.span, col, "STRUCT")>>
       [] address.tag = "IPAddr" -> <<SemanticToken(address.span, col, "KEYWORD")>>
       [] address.tag = "CIDR" ->
            <<SemanticToken(address.ipspan, col, "KEYWORD"),
              SemanticToken(address.maskspan, col, "NUMBER")>>
       [] address.tag = "IPGroup" ->
            [k \in 1..Len(address.items) |->
               SemanticToken(address.items[k].span, col, "KEYWORD")]
       [] address.tag = "NegIP" -> SemanticTokenFromAddress(address.child, col)
       [] address.tag = "IPVariable" ->
            <<SemanticToken(address.span, col, "VARIABLE")>>

\* semantic_token_from_port: the tokens pushed for a spanned port
RECURSIVE SemanticTokenFromPort(_, _)
RECURSIVE SemanticTokenFromPorts(_, _)
SemanticTokenFromPorts(group, col) ==
  IF group = <<>> THEN <<>>
  ELSE SemanticTokenFromPort(group[1], col)
       \o SemanticTokenFromPorts(Tail(group), col)

SemanticTokenFromPort(expr, col) ==
  LET port == expr.node
  IN CASE port.tag = "Any" -> <<SemanticToken(expr.span, col, "STRUCT")>>
       [] port.tag = "Port" -> <<SemanticToken(expr.span, col, "NUMBER")>>
       [] port.tag = "PortGroup" -> SemanticTokenFromPorts(port.items, col)
       [] port.tag = "PortRange" ->
            <<SemanticToken(port.fromspan, col, "NUMBER"),
              SemanticToken(port.tospan, col, "NUMBER")>>
       [] port.tag = "PortOpenRange" -> <<SemanticToken(port.span, col, "NUMBER")>>
       [] port.tag = "NegPort" -> <<SemanticToken(port.child.span, col, "NUMBER")>>
       [] port.tag = "PortVar" -> <<SemanticToken(port.span, col, "VARIABLE")>>

\* semantic_token_from_options: the tokens pushed for a spanned option
SemanticTokenFromOptions(expr, col) ==
  LET option == expr.node
  IN IF option.tag = "KeywordPair"
     THEN <<SemanticToken(option.kwspan, col, "KEYWORD")>>
          \o [k \in 1..Len(option.values) |->
                SemanticToken(option.values[k].span, col,
                              IF option.values[k].node.tag = "String"
                              THEN "STRING" ELSE "PROPERTY")]
     ELSE <<SemanticToken(option.kwspan, col, "KEYWORD")>>

\* the concatenation of the token lists F(x) of the elements of a list
RECURSIVE FlatMap(_, _)
FlatMap(F(_), xs) ==
  IF xs = <<>> THEN <<>> ELSE F(xs[1]) \o FlatMap(F, Tail(xs))

\* semantic_token_from_rule: action, addresses, ports, options
SemanticTokenFromRule(rule, col) ==
  LET r == rule.node
      h == r.header.node
      addr(a) == SemanticTokenFromAddress(a, col)
      port(q) == SemanticTokenFromPort(q, col)
      opt(o) == SemanticTokenFromOptions(o, col)
  IN (IF r.action = None THEN <<>>
      ELSE <<SemanticToken(r.action[1].span, col, "FUNCTION")>>)
     \o FlatMap(addr, h.source \o h.destination)
     \o FlatMap(port, h.source_port \o h.destination_port)
     \o (IF r.options = None THEN <<>> ELSE FlatMap(opt, r.options[1]))

\* ------------------------------------------------------------------------
\* SpecDoc: documents change and Backend::on_change handles each change
\* (src/src/main.rs, 451-540)
\* ------------------------------------------------------------------------

\* number of changes of the document (the version of the last one)
MaxChanges == 2

\* number of semantic_tokens_full requests on a document
MaxRequests == 2

\* number of calls of on_change that run concurrently
MaxCalls == 2

\* number of messages of a log of the checker
MaxLog == 3

\* the documents are those of one uri
Uris == {"file:///a.rules"}

\* the lines of the generated documents: empty, blank, a comment, a rule and
\* a line with a port above 65535
DocLines ==
  {<<>>,
   <<" ", " ">>,
   <<"#", " ", "c">>,
   <<"a", "l", "e", "r", "t", " ", "i", "p", " ", "$", "A", " ", "8", "0", " ", "(", "a", ":", "1", ";", ")">>,
   <<"a", " ", "a", " ", "a", "n", "y", " ", "6", "5", "5", "3", "6">>}

\* the texts of n lines of DocLines joined by line breaks
RECURSIVE DocTexts(_)
DocTexts(n) ==
  IF n = 1 THEN DocLines
  ELSE {l \o <<"\n">> \o d : l \in DocLines, d \in DocTexts(n - 1)}

\* Rope::lines(): the lines of a text, each with its line break; a text that
\* ends with a line break has a last empty line.  The first line continues
\* cur.
RopeLines(text, cur) ==
  LET breaks == {i \in 1..Len(text) : text[i] = "\n"}
      End(k) == IF k = 0 THEN 0
                ELSE IF k > Cardinality(breaks) THEN Len(text)
                ELSE CHOOSE i \in breaks :
                       Cardinality({j \in breaks : j <= i}) = k
  IN [k \in 1..(Cardinality(breaks) + 1) |->
        (IF k = 1 THEN cur ELSE <<>>) \o SubSeq(text, End(k - 1) + 1, End(k))]

\* Rope::line_to_char(k): the offset of the first character of line k (from 0)
RECURSIVE LineToChar(_, _)
LineToChar(lines, k) ==
  IF k = 0 THEN 0 ELSE Len(lines[k]) + LineToChar(lines, k - 1)

\* Rope::try_char_to_line(offset) of an offset within the text: the number
\* of line breaks before it
CharToLine(text, offset) ==
  Cardinality({i \in 1..offset : text[i] = "\n"})

\* offset_to_position (main.rs, 561-566): None beyond the end of the text
OffsetToPosition(offset, text) ==
  IF offset > Len(text) THEN None
  ELSE LET l == CharToLine(text, offset)
       IN Some([line |-> l,
                character |-> offset - LineToChar(RopeLines(text, <<>>), l)])

\* the diagnostics of the parse errors (main.rs, 476-524): one for each
\* error whose span has both ends in the text.  The message is not modelled.
RECURSIVE Diagnostics(_, _)
Diagnostics(errors, text) ==
  IF errors = <<>> THEN <<>>
  ELSE LET s == OffsetToPosition(errors[1].span.start, text)
           e == OffsetToPosition(errors[1].span.end, text)
       IN (IF s = None \/ e = None THEN <<>>
           ELSE <<[range |-> [start |-> s[1], end |-> e[1]]]>>)
          \o Diagnostics(Tail(errors), text)

\* map with the entry of key k set to v: DashMap::insert
Insert(map, k, v) ==
  [u \in DOMAIN map \cup {k} |-> IF u = k THEN v ELSE map[u]]

\* the errors of the lines in line order; a failed parse leaves one error,
\* the one chumsky keeps, whose span is one token of the line or its end:
\* starts[k] is the offset of that token in line k
RECURSIVE LineErrors(_, _, _)
LineErrors(res, starts, k) ==
  IF k > Len(res) THEN <<>>
  ELSE (IF res[k].outcome = "failure"
        THEN <<[span |-> [start |-> starts[k], end |-> starts[k] + 1]]>>
        ELSE <<>>)
       \o LineErrors(res, starts, k + 1)

\* the tokens of the lines' rules in line order, each line with the offset
\* of its first character
RECURSIVE LineTokens(_, _, _)
LineTokens(res, lines, k) ==
  IF k > Len(res) THEN <<>>
  ELSE (IF res[k].outcome = "rule"
        THEN SemanticTokenFromRule(res[k].rule[1], LineToChar(lines, k - 1))
        ELSE <<>>)
       \o LineTokens(res, lines, k + 1)

InitDoc ==
  /\ NoDoc
  /\ line = <<>> /\ pc = "typed"
  /\ NoRule /\ NoTree /\ NoValue

\* the results of parse_recovery on the lines
ParseLines(lines) == [k \in 1..Len(lines) |-> ParseRecovery(lines[k])]

\* the AST of the lines' results: the rule of line k under the key k - 1
AstOf(res) ==
  [rules |-> [n \in {k - 1 : k \in {k \in 1..Len(res) : res[k].outcome = "rule"}}
                |-> res[n + 1].rule[1]]]

\* the call of on_change after the loop over the lines with results res
Parsed(uri, text, version, lines, res, starts) ==
  [pc |-> "parsed",
   version |-> version,
   uri |-> uri,
   rope |-> text,
   ast |-> AstOf(res),
   errors |-> LineErrors(res, starts, 1),
   semantic_tokens |-> LineTokens(res, lines, 1)]

\* the loop over the lines with results res: a line that makes the parser
\* panic ends the call there, else the call goes on with the errors
ParsedTask(uri, text, lines, res) ==
  IF \E k \in 1..Len(res) : res[k].outcome = "abort"
  THEN task' = [pc |-> "idle", version |-> task.version + 1]
  ELSE \E starts \in [{k \in 1..Len(res) : res[k].outcome = "failure"}
                       -> 0..Len(text)] :
         /\ \A k \in DOMAIN starts : starts[k] <= Len(lines[k])
         /\ task' = Parsed(uri, text, task.version + 1, lines, res, starts)

\* on_change up to its first await (main.rs, 452-466): the text is stored in
\* document_map and every line is parsed; the rule of a line goes into the
\* AST under the line's number and gives its tokens, the errors are
\* collected
OnChangeParse(uri, text) ==
  /\ task.pc = "idle"
  /\ task.version < MaxChanges
  /\ document_map' = Insert(document_map, uri, text)
  /\ Bind(RopeLines(text, <<>>), LAMBDA lines :
       ParsedTask(uri, text, lines, ParseLines(lines)))
  /\ UNCHANGED <<ast_map, semantic_token_map, client>>
  /\ UNCHANGED <<line, pc, ruleVars, treeVars, valueVars, keywords, reply, calls>>

\* the diagnostics are computed and published (main.rs, 476-528)
OnChangePublish ==
  /\ task.pc = "parsed"
  /\ client' = Insert(client, task.uri,
                      [diagnostics |-> Diagnostics(task.errors, task.rope),
                       version |-> task.version])
  /\ task' = [task EXCEPT !.pc = "published"]
  /\ UNCHANGED <<document_map, ast_map, semantic_token_map>>
  /\ UNCHANGED <<line, pc, ruleVars, treeVars, valueVars, keywords, reply, calls>>

\* the AST is stored (main.rs, 530)
OnChangeInsertAst ==
  /\ task.pc = "published"
  /\ ast_map' = Insert(ast_map, task.uri, task.ast)
  /\ task' = [task EXCEPT !.pc = "stored"]
  /\ UNCHANGED <<document_map, semantic_token_map, client>>
  /\ UNCHANGED <<line, pc, ruleVars, treeVars, valueVars, keywords, reply, calls>>

\* the tokens are stored and the call returns (main.rs, 534-539)
OnChangeInsertTokens ==
  /\ task.pc = "stored"
  /\ semantic_token_map' = Insert(semantic_token_map, task.uri,
                                  task.semantic_tokens)
  /\ task' = [pc |-> "idle", version |-> task.version]
  /\ UNCHANGED <<document_map, ast_map, client>>
  /\ UNCHANGED <<line, pc, ruleVars, treeVars, valueVars, keywords, reply, calls>>

NextDoc ==
  \/ \E uri \in Uris, text \in UNION {DocTexts(n) : n \in 1..MaxLines} :
       OnChangeParse(uri, text)
  \/ OnChangePublish
  \/ OnChangeInsertAst
  \/ OnChangeInsertTokens

SpecDoc == InitDoc /\ [][NextDoc]_vars

\* the line is a comment, empty or of whitespace only
CommentOrBlank(l) ==
  \/ l # <<>> /\ l[1] = "#"
  \/ \A k \in 1..Len(l) : l[k] \in Whitespace

\* C8: a comment or blank line of a changed document has no entry in the AST
\* built for it, and a document of such lines only has no diagnostic
CommentLinesBypass ==
  /\ task.pc # "idle" =>
       LET lines == RopeLines(task.rope, <<>>)
       IN /\ \A k \in 1..Len(lines) :
               CommentOrBlank(lines[k]) => k - 1 \notin DOMAIN task.ast.rules
          /\ (\A k \in 1..Len(lines) : CommentOrBlank(lines[k]))
               => task.errors = <<>>
  /\ \A u \in DOMAIN client \cap DOMAIN document_map :
       LET lines == RopeLines(document_map[u], <<>>)
       IN task.pc \in {"published", "stored"}
          /\ (\A k \in 1..Len(lines) : CommentOrBlank(lines[k]))
            => client[u].diagnostics = <<>>

\* ------------------------------------------------------------------------
\* References (src/src/reference.rs)
\* ------------------------------------------------------------------------

\* a containment that takes the end of the span in
SpanContainsEnd(sp, x) == sp.start <= x /\ x <= sp.end

\* Range::contains: start <= x < end
SpanContains(sp, x) == sp.start <= x /\ x < sp.end

\* iter().find(|(_, span)| span.contains(offset)) on a sequence of spanned
\* items: the index of the first one from k on, 0 if there is none
RECURSIVE FindSpanned(_, _, _)
FindSpanned(items, offset, k) ==
  IF k > Len(items) THEN 0
  ELSE IF SpanContains(items[k].span, offset) THEN k
  ELSE FindSpanned(items, offset, k + 1)

\* get_address_from_offset: the name of the variable of the tree at the
\* offset
RECURSIVE GetAddressFromOffset(_, _)
GetAddressFromOffset(address, ident_offset) ==
  CASE address.tag = "IPGroup" ->
         Bind(FindSpanned(address.items, ident_offset, 1), LAMBDA k :
           IF k = 0 THEN None
           ELSE GetAddressFromOffset(address.items[k].node, ident_offset))
    [] address.tag = "NegIP" /\ SpanContains(address.child.span, ident_offset) ->
         GetAddressFromOffset(address.child.node, ident_offset)
    [] address.tag = "IPVariable" /\ SpanContains(address.span, ident_offset) ->
         Some(address.name)
    [] OTHER -> None

\* the address of an Option<Spanned<NetworkAddress>> field looked up at the
\* offset; a field that is None has no variable
FieldAddressFromOffset(field, ident_offset) ==
  IF field = None THEN None
  ELSE GetAddressFromOffset(field[1].node, ident_offset)

\* iter().find(|(_, span)| span.contains(offset)) on the rules of the AST,
\* visited in the order `order` of their keys: Some(key) of the first rule
\* whose span contains the offset
RECURSIVE FindRule(_, _, _)
FindRule(ast, order, ident_offset) ==
  IF order = <<>> THEN None
  ELSE IF SpanContains(ast.rules[order[1]].span, ident_offset)
  THEN Some(order[1])
  ELSE FindRule(ast, Tail(order), ident_offset)

\* get_variable_name: the variable at the offset in the source or the
\* destination of the first rule whose span contains the offset
GetVariableName(ast, order, ident_offset) ==
  Bind(FindRule(ast, order, ident_offset), LAMBDA rule :
    IF rule = None THEN None
    ELSE Bind(FieldAddressFromOffset(
                ast.rules[rule[1]].node.header.node.source, ident_offset),
              LAMBDA source :
           IF source # None THEN source
           ELSE FieldAddressFromOffset(
                  ast.rules[rule[1]].node.header.node.destination,
                  ident_offset)))

\* get_variable_from_address: reference_list after the call
RECURSIVE GetVariableFromAddress(_, _, _)
RECURSIVE GetVariableFromGroup(_, _, _)
GetVariableFromGroup(group, variable, reference_list) ==
  IF group = <<>> THEN reference_list
  ELSE GetVariableFromGroup(Tail(group), variable,
         GetVariableFromAddress(group[1].node, variable, reference_list))

GetVariableFromAddress(address, variable, reference_list) ==
  CASE address.tag = "IPGroup" ->
         GetVariableFromGroup(address.items, variable, reference_list)
    [] address.tag = "NegIP" ->
         GetVariableFromAddress(address.child.node, variable, reference_list)
    [] address.tag = "IPVariable" ->
         IF variable = address.name
         THEN Append(reference_list, [name |-> address.name, span |-> address.span])
         ELSE reference_list
    [] OTHER -> reference_list

\* get_variable_from_address on an Option field
GetVariableFromField(field, variable, reference_list) ==
  IF field = None THEN reference_list
  ELSE GetVariableFromAddress(field[1].node, variable, reference_list)

\* get_variable_with_name: reference_list after the rules were visited in
\* the order `order`, the source of each before its destination
RECURSIVE GetVariableWithName(_, _, _, _)
GetVariableWithName(ast, order, variable, reference_list) ==
  IF order = <<>> THEN reference_list
  ELSE GetVariableWithName(ast, Tail(order), variable,
         GetVariableFromField(ast.rules[order[1]].node.header.node.destination,
           variable,
           GetVariableFromField(ast.rules[order[1]].node.header.node.source,
             variable, reference_list)))

\* the references but those whose span contains the offset
ExcludeSelf(reference_list, ident_offset) ==
  SelectSeq(reference_list, LAMBDA r : ~SpanContains(r.span, ident_offset))

\* get_reference, with the name it resolved
GetReference(ast, order, ident_offset, include_self) ==
  Bind(GetVariableName(ast, order, ident_offset), LAMBDA variable_name :
    IF variable_name = None
    THEN [variable_name |-> None, references |-> <<>>]
    ELSE [variable_name |-> variable_name,
          references |->
            IF include_self
            THEN GetVariableWithName(ast, order, variable_name[1], <<>>)
            ELSE ExcludeSelf(
                   GetVariableWithName(ast, order, variable_name[1], <<>>),
                   ident_offset)])

\* ------------------------------------------------------------------------
\* Completion (src/src/completion.rs, src/src/suricata.rs)
\* ------------------------------------------------------------------------

\* str::starts_with
StartsWith(t, prefix) ==
  Len(t) >= Len(prefix) /\ SubSeq(t, 1, Len(prefix)) = prefix

\* the text "No option"
NoOptionText == <<"N", "o", " ", "o", "p", "t", "i", "o", "n">>

\* KeywordRecord::to_keyword: the name and the Keyword of a record
ToKeyword(record) ==
  IF StartsWith(record.features, NoOptionText)
  THEN <<record.name, [tag |-> "NoOption", record |-> record]>>
  ELSE <<record.name, [tag |-> "Other", record |-> record]>>

\* get_keywords: the dictionary of the records of the CSV text, a later
\* record of a name replacing an earlier one
RECURSIVE GetKeywords(_, _)
GetKeywords(records, ret) ==
  IF records = <<>> THEN ret
  ELSE GetKeywords(Tail(records),
                   Insert(ret, ToKeyword(records[1])[1], ToKeyword(records[1])[2]))

\* search_for_address_variables: address_variables after the call
RECURSIVE SearchForAddressVariables(_, _)
SearchForAddressVariables(address, address_variables) ==
  CASE address.tag = "IPGroup" ->
         address_variables
         \cup UNION {SearchForAddressVariables(address.items[k].node, {}) :
                       k \in 1..Len(address.items)}
    [] address.tag = "NegIP" ->
         SearchForAddressVariables(address.child.node, address_variables)
    [] address.tag = "IPVariable" -> address_variables \cup {address.name}
    [] OTHER -> address_variables

\* a search that looks at the port itself only, not into groups or negations
SearchForPortVariablesOutside(port, port_variables) ==
  IF port.tag = "PortVar" THEN port_variables \cup {port.name}
  ELSE port_variables

\* search_for_port_variables: port_variables after the call
RECURSIVE SearchForPortVariables(_, _)
SearchForPortVariables(port, port_variables) ==
  CASE port.tag = "PortGroup" ->
         port_variables
         \cup UNION {SearchForPortVariables(port.items[k].node, {}) :
                       k \in 1..Len(port.items)}
    [] port.tag = "NegPort" ->
         SearchForPortVariables(port.child.node, port_variables)
    [] port.tag = "PortVar" -> port_variables \cup {port.name}
    [] OTHER -> port_variables

\* Rule::addresses and Rule::ports: the fields of the header that are Some
RuleFields(rule, names) ==
  {rule.header.node[f][1].node :
     f \in {f \in names : rule.header.node[f] # None}}

\* get_variables_from_ast: the two sets after the call on empty sets
GetVariablesFromAst(ast) ==
  [address_variables |->
     UNION {SearchForAddressVariables(a, {}) :
              a \in UNION {RuleFields(ast.rules[n].node, {"source", "destination"}) :
                             n \in DOMAIN ast.rules}},
   port_variables |->
     UNION {SearchForPortVariables(p, {}) :
              p \in UNION {RuleFields(ast.rules[n].node,
                                      {"source_port", "destination_port"}) :
                             n \in DOMAIN ast.rules}}]

\* an item that inserts the name with its "$"
VariableItemWithSigil(var) ==
  [label |-> var, insert_text |-> Some(<<"$">> \o var), kind |-> "VARIABLE",
   detail |-> Some(var)]

\* the CompletionItem of a variable (get_completion_for_address and
\* get_completion_for_port push the same item)
VariableItem(var) ==
  [label |-> var, insert_text |-> Some(var), kind |-> "VARIABLE",
   detail |-> Some(var)]

\* get_completion_for_address, get_completion_for_port: completion_tokens
\* after the call.  The tokens are a bag: their order is the iteration order
\* of the HashSet.
GetCompletionForVariables(variables, completion_tokens) ==
  completion_tokens (+) SetToBag({VariableItem(var) : var \in variables})

\* the CompletionItem of a keyword
KeywordItem(keyword) ==
  [label |-> keyword.record.name,
   insert_text |-> IF keyword.tag = "NoOption"
                   THEN Some(keyword.record.name \o <<";", " ">>)
                   ELSE Some(keyword.record.name),
   kind |-> "KEYWORD",
   detail |-> Some(keyword.record.description)]

\* get_completion_for_option_keywords: completion_tokens after the call
GetCompletionForOptionKeywords(dictionary, completion_tokens) ==
  completion_tokens
  (+) SetToBag({KeywordItem(dictionary[name]) : name \in DOMAIN dictionary})

\* `line.get_char(offset - 1)?` of get_completion.  offset - 1 is a usize
\* subtraction: for offset 0 it panics in a build with overflow checks and
\* wraps to usize::MAX in a build without them; get_char is None from the
\* length of the line on
PreviousChar(text, offset, overflow_checks) ==
  IF offset = 0
  THEN [abort |-> overflow_checks, wrapped |-> ~overflow_checks, char |-> None]
  ELSE [abort |-> FALSE, wrapped |-> FALSE,
        char |-> IF offset - 1 < Len(text) THEN Some(text[offset]) ELSE None]

\* get_completion: the tokens returned, or the abort.  The `?` on a None
\* character returns with no token.
GetCompletion(text, ast, offset, dictionary, overflow_checks) ==
  Bind(PreviousChar(text, offset, overflow_checks), LAMBDA previous :
    [abort |-> previous.abort,
     wrapped |-> previous.wrapped,
     variables |-> GetVariablesFromAst(ast),
     completion_tokens |->
       IF previous.char = None THEN EmptyBag
       ELSE IF previous.char[1] = "$"
       THEN GetCompletionForVariables(GetVariablesFromAst(ast).port_variables,
              GetCompletionForVariables(GetVariablesFromAst(ast).address_variables,
                                        EmptyBag))
       ELSE GetCompletionForOptionKeywords(dictionary, EmptyBag)])

\* ------------------------------------------------------------------------
\* Hover (src/src/hover.rs, src/src/rule/header.rs)
\* ------------------------------------------------------------------------

\* 2^n
RECURSIVE Pow2(_)
Pow2(n) == IF n = 0 THEN 1 ELSE 2 * Pow2(n - 1)

\* the number of host bits of a prefix that fall in unit k of an address of
\* n units of w bits (4 octets, or 8 groups of 16 bits)
HostBits(n, w, prefix_len, k) ==
  IF n * w - prefix_len - (n - k) * w < 0 THEN 0
  ELSE IF n * w - prefix_len - (n - k) * w > w THEN w
  ELSE n * w - prefix_len - (n - k) * w

\* IpNet::new: Some(net) for a prefix length of at most 32 (IPv4) or 128
\* (IPv6), None for its Err
IpNetNew(ip, prefix_len) ==
  IF prefix_len > Len(ip.o) * (IF ip.v = 4 THEN 8 ELSE 16) THEN None
  ELSE Some([addr |-> ip, prefix_len |-> prefix_len])

\* IpNet::network: the address with its host bits cleared
IpNetNetwork(net) ==
  [v |-> net.addr.v,
   o |-> [k \in 1..Len(net.addr.o) |->
            net.addr.o[k]
            - (net.addr.o[k] % Pow2(HostBits(Len(net.addr.o),
                                             IF net.addr.v = 4 THEN 8 ELSE 16,
                                             net.prefix_len, k)))]]

\* IpNet::broadcast: the address with its host bits set
IpNetBroadcast(net) ==
  [v |-> net.addr.v,
   o |-> [k \in 1..Len(net.addr.o) |->
            IpNetNetwork(net).o[k]
            + Pow2(HostBits(Len(net.addr.o),
                            IF net.addr.v = 4 THEN 8 ELSE 16,
                            net.prefix_len, k)) - 1]]

\* Display of IpNet: the address as given, "/", the prefix length
IpNetToString(net) ==
  IpToString(net.addr) \o <<"/">> \o NumToStr(net.prefix_len, 10)

\* the text between two asterisks on either side
Bold(t) == <<"*", "*">> \o t \o <<"*", "*">>

\* hover_for_address (hover.rs): the content of a CIDR with the span of the
\* address, found through groups and negations
RECURSIVE HoverForAddress(_, _)
HoverForAddress(address, col) ==
  CASE address.node.tag = "CIDR" ->
         Bind(IpNetNew(address.node.ip, address.node.mask), LAMBDA range :
           IF range = None THEN None
           ELSE Some(Spanned(Bold(IpToString(IpNetNetwork(range[1])))
                             \o <<" ", "-", " ">>
                             \o Bold(IpToString(IpNetBroadcast(range[1]))),
                             address.span)))
    [] address.node.tag = "IPGroup" ->
         Bind(FindSpanned(address.node.items, col, 1), LAMBDA k :
           IF k = 0 THEN None
           ELSE HoverForAddress(address.node.items[k], col))
    [] address.node.tag = "NegIP" -> HoverForAddress(address.node.child, col)
    [] OTHER -> None

\* the address field looked up by hover_for_header, None if the column is
\* in neither field
HeaderAddressAt(header, col) ==
  IF header.source # None /\ SpanContains(header.source[1].span, col)
  THEN HoverForAddress(header.source[1], col)
  ELSE IF header.destination # None
          /\ SpanContains(header.destination[1].span, col)
  THEN HoverForAddress(header.destination[1], col)
  ELSE None

\* hover_for_header: the calls of hover_for_address are statements, their
\* value is dropped, and the value of the function is its last expression,
\* None
HoverForHeader(header, col) ==
  Bind(HeaderAddressAt(header.node, col), LAMBDA dropped : None)

\* get_contents_for_keyword (hover.rs): the name, description and
\* documentation of the keyword of the dictionary, with the span
HoverContentsForKeyword(keyword, dictionary, span) ==
  IF keyword \notin DOMAIN dictionary THEN None
  ELSE Some(Spanned(
         Join(<<<<"#">> \o dictionary[keyword].record.name,
                <<"#", "#", " ", "D", "e", "s", "c", "r", "i", "p", "t", "i", "o", "n">>,
                dictionary[keyword].record.description,
                <<"#", "#", " ", "D", "o", "c", "u", "m", "e", "n", "t", "a", "t", "i", "o", "n">>,
                dictionary[keyword].record.documentation>>, <<"\n">>),
         span))

\* hover_for_options: the keyword of the first option whose span contains
\* the column
HoverForOptions(options, col, dictionary) ==
  IF options = None THEN None
  ELSE Bind(FindSpanned(options[1], col, 1), LAMBDA k :
         IF k = 0 THEN None
         ELSE IF options[1][k].node.tag = "KeywordPair"
                 /\ ~SpanContains(options[1][k].node.kwspan, col)
         THEN None
         ELSE HoverContentsForKeyword(options[1][k].node.keyword, dictionary,
                                      options[1][k].node.kwspan))

\* get_hover (hover.rs)
GetHover(ast, line_number, col, dictionary) ==
  IF line_number \notin DOMAIN ast.rules THEN None
  ELSE Bind(HoverForHeader(ast.rules[line_number].node.header, col),
            LAMBDA header :
         IF header # None THEN header
         ELSE HoverForOptions(ast.rules[line_number].node.options, col,
                              dictionary))

\* impl Hover for NetworkAddress: the content of a CIDR, with the span from
\* the start of its address to the end of its mask
RECURSIVE NetworkAddressGetHover(_, _)
NetworkAddressGetHover(address, col) ==
  CASE address.tag = "CIDR" ->
         Bind(IpNetNew(address.ip, address.mask), LAMBDA range :
           IF range = None THEN None
           ELSE Some(Spanned(Bold(IpNetToString(range[1]))
                             \o <<"\n", "\n">>
                             \o IpToString(IpNetNetwork(range[1]))
                             \o <<" ", "-", " ">>
                             \o IpToString(IpNetBroadcast(range[1])),
                             [start |-> address.ipspan.start,
                              end |-> address.maskspan.end])))
    [] address.tag = "IPGroup" ->
         Bind(FindSpanned(address.items, col, 1), LAMBDA k :
           IF k = 0 THEN None
           ELSE NetworkAddressGetHover(address.items[k].node, col))
    [] address.tag = "NegIP" -> NetworkAddressGetHover(address.child.node, col)
    [] OTHER -> None

\* a hover of one character for a port
NetworkPortGetHoverText(port, col) ==
  Some(Spanned(<<"p">>, [start |-> col, end |-> col + 1]))

\* impl Hover for NetworkPort and for NetworkDirection: None for every form
NetworkPortGetHover(port, col) == None

\* the first of the fields, in the order fields, that is Some and whose span
\* contains the column; "none" if there is none
RECURSIVE FieldAt(_, _, _)
FieldAt(header, fields, col) ==
  IF fields = <<>> THEN "none"
  ELSE IF header[fields[1]] # None
          /\ SpanContains(header[fields[1]][1].span, col)
  THEN fields[1]
  ELSE FieldAt(header, Tail(fields), col)

\* impl Hover for Header: the hover of the field at the column, the fields
\* tried in the order source, source_port, direction, destination,
\* destination_port
HeaderGetHover(header, col) ==
  Bind(FieldAt(header, <<"source", "source_port", "direction", "destination",
                         "destination_port">>, col), LAMBDA field :
    IF field \in {"source", "destination"}
    THEN NetworkAddressGetHover(header[field][1].node, col)
    ELSE IF field \in {"source_port", "destination_port"}
    THEN NetworkPortGetHover(header[field][1].node, col)
    ELSE None)

\* get_contents_for_keyword (options.rs): the name, the description and the
\* documentation of the keyword of the dictionary, with the span
GetContentsForKeyword(keyword, dictionary, span) ==
  IF keyword \notin DOMAIN dictionary THEN None
  ELSE Some(Spanned(
         Join(<<Bold(dictionary[keyword].record.name),
                dictionary[keyword].record.description,
                <<"*", "D", "o", "c", "u", "m", "e", "n", "t", "a", "t", "i", "o", "n", ":", " ">>
                  \o dictionary[keyword].record.documentation \o <<"*">>>>,
              <<"\n", "\n">>),
         span))

\* the hover of an option whatever the column
RuleOptionGetHoverAnywhere(option, col, dictionary) ==
  GetContentsForKeyword(option.keyword, dictionary, option.kwspan)

\* impl Hover for RuleOption: the contents of the keyword if its span
\* contains the column
RuleOptionGetHover(option, col, dictionary) ==
  IF SpanContains(option.kwspan, col)
  THEN GetContentsForKeyword(option.keyword, dictionary, option.kwspan)
  ELSE None

\* impl Hover for Rule: the hover of the header if its span contains the
\* column, else that of the first option whose span contains it
RuleGetHover(rule, col, dictionary) ==
  IF SpanContains(rule.header.span, col)
  THEN HeaderGetHover(rule.header.node, col)
  ELSE IF rule.options = None THEN None
  ELSE Bind(FindSpanned(rule.options[1], col, 1), LAMBDA k :
         IF k = 0 THEN None
         ELSE RuleOptionGetHover(rule.options[1][k].node, col, dictionary))

\* ------------------------------------------------------------------------
\* SpecLocate: an address is parsed and asked for the variable at an offset
\* ------------------------------------------------------------------------

\* the texts of the addresses: the generated trees, and trees with the
\* leaves that are no variable
LocateTexts ==
  TreeTexts("address", MaxDepth)
  \cup {<<"a", "n", "y">>,
        <<"1", ".", "2", ".", "3", ".", "0", "/", "2", "4">>,
        <<"[", "$", "A", "B", ",", "1", ".", "2", ".", "3", ".", "0", "/", "2", "4", "]">>,
        <<"!", "[", "1", ".", "2", ".", "3", ".", "4", ",", " ", "$", "A", "]">>}

InitLocate ==
  /\ kind = "address"
  /\ line \in LocateTexts
  /\ pc = "typed"
  /\ tree = None /\ found = NotSearched
  /\ NoRule /\ NoValue /\ NoDoc

\* get_address_from_offset(tree, offset)
LocateVariable(offset) ==
  /\ pc = "parsed"
  /\ tree # None
  /\ found' = [offset |-> offset,
               result |-> GetAddressFromOffset(tree[1].node, offset)]
  /\ pc' = "located"
  /\ UNCHANGED <<line, kind, tree, ruleVars, valueVars, docVars>>

NextLocate ==
  \/ ParseTree
  \/ \E offset \in 0..Len(line) : LocateVariable(offset)

SpecLocate == InitLocate /\ [][NextLocate]_vars

\* the variables of the text whose span contains the offset, in text order
VariablesAt(s, offset) ==
  SelectSeq(VariableOccurrences(s, 0),
            LAMBDA v : v.span.start <= offset /\ offset < v.span.end)

\* C11: the lookup returns the name of the first variable, in the order of
\* the text, whose span [start, end) contains the offset, and none when no
\* variable does: on a literal, on `any`, on a CIDR, at the end of a span
VariableAtOffset ==
  pc = "located" =>
    found.result = IF VariablesAt(line, found.offset) = <<>> THEN None
                   ELSE Some(VariablesAt(line, found.offset)[1].name)

\* C11, witness: the second variable of a nested group was found at its
\* last character, and so was none at the end of a variable's span
VariableLocated ==
  /\ pc = "located"
  /\ tree[1].node.tag = "IPGroup"
  /\ \E k \in 1..Len(tree[1].node.items) :
       tree[1].node.items[k].node.tag \in {"IPGroup", "NegIP"}
  /\ found.result # None
  /\ Len(VariableOccurrences(line, 0)) >= 2
  /\ found.result[1] = VariableOccurrences(line, 0)[2].name
  /\ found.offset = VariableOccurrences(line, 0)[2].span.end - 1

\* ------------------------------------------------------------------------
\* SpecQuery: documents are changed and queried
\* ------------------------------------------------------------------------

\* the lines of the queried documents: a rule with variables in groups, a
\* rule with a CIDR, a rule with the other forms of address, port and
\* direction, and a rule with a negated CIDR and options
QueryLines ==
  {
   <<"d", "r", "o", "p", " ", "i", "p", " ", "$", "A", " ", "$", "P", " ",
     "-", ">", " ", "[", "$", "B", ",", "!", "$", "A", "]", " ", "[", "$",
     "P", ",", "8", "]">>,
   <<"d", "r", "o", "p", " ", "i", "p", " ", "$", "A", " ", "a", "n", "y",
     " ", "-", ">", " ", "1", "9", "2", ".", "1", "6", "8", ".", "0", ".",
     "0", "/", "1", "6", " ", "!", "$", "P">>,
   <<"d", "r", "o", "p", " ", "i", "p", " ", "[", "1", ".", "2", ".", "3",
     ".", "4", "/", "3", "3", ",", "9", ".", "8", ".", "7", ".", "6", "]",
     " ", "1", ":", "2", " ", "<", ">", " ", "a", "n", "y", " ", ":", "5">>,
   <<"d", "r", "o", "p", " ", "i", "p", " ", "!", "1", "0", ".", "1", ".",
     "2", ".", "3", "/", "9", " ", "$", "P", " ", "(", "m", "s", "g", ":",
     "1", ";", "n", "o", "c", "a", "s", "e", ";", ")">>}

\* the queried documents: one line, or two
QueryTexts ==
  QueryLines \cup {a \o <<"\n">> \o b : a \in QueryLines, b \in QueryLines}

\* the records of the keyword CSV: a keyword with a value and one without
KeywordRecords ==
  <<
  [name |-> <<"m", "s", "g">>,
   description |-> <<"m">>,
   app_layer |-> <<>>,
   features |-> <<>>,
   documentation |-> <<"d">>],
  [name |-> <<"n", "o", "c", "a", "s", "e">>,
   description |-> <<"n">>,
   app_layer |-> <<>>,
   features |-> <<"N", "o", " ", "o", "p", "t", "i", "o", "n", ",", "x">>,
   documentation |-> <<"e">>]>>

\* the new names of a rename request
NewNames == {<<"N">>, <<"H", "O", "M", "E">>}

\* the orders in which a HashMap of the keys S can be iterated
Orders(S) ==
  {o \in [1..Cardinality(S) -> S] :
     \A i \in 1..Cardinality(S), j \in 1..Cardinality(S) : o[i] = o[j] => i = j}

\* the positions a query is sent for: every line of the document and one
\* past the last, every column of the line and one past its end
Positions(text) ==
  UNION {{[line |-> l, character |-> c] :
            c \in 0..(IF l < Len(RopeLines(text, <<>>))
                      THEN Len(RopeLines(text, <<>>)[l + 1]) + 1 ELSE 0)} :
           l \in 0..Len(RopeLines(text, <<>>))}

\* the Backend is built; it is given no keyword, or those of get_keywords
InitQuery ==
  /\ document_map = EmptyMap /\ ast_map = EmptyMap
  /\ semantic_token_map = EmptyMap /\ client = EmptyMap
  /\ task = Idle
  /\ keywords \in {EmptyMap, GetKeywords(KeywordRecords, EmptyMap)}
  /\ reply = None
  /\ calls = <<>>
  /\ line = <<>> /\ pc = "typed"
  /\ NoRule /\ NoTree /\ NoValue

\* get_reference on the AST of the document (src/src/reference.rs, 3-16),
\* its HashMap iterated in the order `order`
References(uri, order, ident_offset, include_self) ==
  /\ uri \in DOMAIN ast_map
  /\ reply' = Some([query |-> "reference",
                    ident_offset |-> ident_offset,
                    include_self |-> include_self,
                    result |-> GetReference(ast_map[uri], order, ident_offset,
                                            include_self)])
  /\ UNCHANGED <<document_map, ast_map, semantic_token_map, client, task, keywords, calls>>
  /\ UNCHANGED <<line, pc, ruleVars, treeVars, valueVars>>

\* Backend::completion (src/src/main.rs, 428-440): None without the
\* document, its line or its AST
Completion(uri, position, overflow_checks) ==
  /\ reply' =
       Some([query |-> "completion",
             position |-> position,
             result |->
               IF \/ uri \notin DOMAIN document_map
                  \/ position.line >= Len(RopeLines(document_map[uri], <<>>))
                  \/ uri \notin DOMAIN ast_map
               THEN None
               ELSE Some(GetCompletion(
                      RopeLines(document_map[uri], <<>>)[position.line + 1],
                      ast_map[uri], position.character, keywords,
                      overflow_checks))])
  /\ UNCHANGED <<document_map, ast_map, semantic_token_map, client, task, keywords, calls>>
  /\ UNCHANGED <<line, pc, ruleVars, treeVars, valueVars>>

\* the Hover of a result of get_hover: None if an end of the span is no
\* offset of the text
HoverRange(hover, text) ==
  IF hover = None THEN None
  ELSE IF OffsetToPosition(hover[1].span.start, text) = None
          \/ OffsetToPosition(hover[1].span.end, text) = None
  THEN None
  ELSE Some([contents |-> hover[1].node,
             range |-> [start |-> OffsetToPosition(hover[1].span.start, text)[1],
                        end |-> OffsetToPosition(hover[1].span.end, text)[1]]])

\* Backend::hover (src/src/main.rs, 307-329)
Hover(uri, position) ==
  /\ reply' =
       Some([query |-> "hover",
             position |-> position,
             found |->
               IF uri \notin DOMAIN ast_map \/ uri \notin DOMAIN document_map
               THEN None
               ELSE GetHover(ast_map[uri], position.line,
                             position.character, keywords),
             result |->
               IF uri \notin DOMAIN ast_map \/ uri \notin DOMAIN document_map
               THEN None
               ELSE HoverRange(GetHover(ast_map[uri], position.line,
                                        position.character, keywords),
                               document_map[uri])])
  /\ UNCHANGED <<document_map, ast_map, semantic_token_map, client, task, keywords, calls>>
  /\ UNCHANGED <<line, pc, ruleVars, treeVars, valueVars>>

\* Header::get_hover on the header of the rule of a line
\* (src/src/rule/header.rs, 118-157)
HeaderHover(uri, position) ==
  /\ uri \in DOMAIN ast_map
  /\ position.line \in DOMAIN ast_map[uri].rules
  /\ reply' =
       Some([query |-> "get_hover",
             position |-> position,
             result |-> HeaderGetHover(
                          ast_map[uri].rules[position.line].node.header.node,
                          position.character)])
  /\ UNCHANGED <<document_map, ast_map, semantic_token_map, client, task, keywords, calls>>
  /\ UNCHANGED <<line, pc, ruleVars, treeVars, valueVars>>

\* the variables of the header of a rule, with a name only those of that
\* name: find_variables on the source, the source port, the destination and
\* the destination port
HeaderVariables(header, name) ==
  (IF header.source = None THEN <<>>
   ELSE AddressFindVariablesWithArray(header.source[1].node, name, <<>>))
  \o (IF header.source_port = None THEN <<>>
      ELSE PortFindVariablesWithArray(header.source_port[1].node, name, <<>>))
  \o (IF header.destination = None THEN <<>>
      ELSE AddressFindVariablesWithArray(header.destination[1].node, name, <<>>))
  \o (IF header.destination_port = None THEN <<>>
      ELSE PortFindVariablesWithArray(header.destination_port[1].node, name, <<>>))

\* the positions of the variables named `name` in the rules of the AST,
\* visited in the order `order`
RECURSIVE ReferencePositions(_, _, _)
ReferencePositions(ast, order, name) ==
  IF order = <<>> THEN <<>>
  ELSE Bind(HeaderVariables(ast.rules[order[1]].node.header.node, Some(name)),
            LAMBDA found_variables :
         [k \in 1..Len(found_variables) |->
            [line |-> order[1], character |-> found_variables[k].span.start]])
       \o ReferencePositions(ast, Tail(order), name)

\* get_reference(ast, line, col, include_self) as Backend::rename and
\* Backend::references call it: the variable at the column in the rule of
\* the line, and the positions of the occurrences of its name in all rules,
\* without the one at the column unless include_self
GetReferenceOfLine(ast, order, line_number, col, include_self) ==
  IF line_number \notin DOMAIN ast.rules THEN None
  ELSE Bind(SelectSeq(HeaderVariables(ast.rules[line_number].node.header.node, None),
                      LAMBDA v : SpanContains(v.span, col)),
            LAMBDA at :
         IF at = <<>> THEN None
         ELSE Some([variable_name |-> at[1].name,
                    reference_list |->
                      SelectSeq(ReferencePositions(ast, order, at[1].name),
                                LAMBDA r : \/ include_self
                                           \/ r.line # line_number
                                           \/ r.character # at[1].span.start)]))

\* the edits of Backend::rename for a reference list: each replaces as many
\* characters as the name has, from the position of the reference on, by
\* the new name
RenameEdits(reference_list, variable_name, new_name) ==
  [k \in 1..Len(reference_list) |->
     [range |-> [start |-> reference_list[k],
                 end |-> [line |-> reference_list[k].line,
                          character |-> reference_list[k].character
                                        + Len(variable_name)]],
      new_text |-> new_name]]

\* Backend::rename (src/src/main.rs, 396-426)
Rename(uri, order, position, new_name) ==
  /\ uri \in DOMAIN ast_map
  /\ uri \in DOMAIN document_map
  /\ reply' =
       Some([query |-> "rename",
             position |-> position,
             new_name |-> new_name,
             result |->
               Bind(GetReferenceOfLine(ast_map[uri], order, position.line,
                                       position.character, TRUE),
                    LAMBDA r :
                 IF r = None THEN None
                 ELSE IF Len(r[1].reference_list) > 0
                 THEN Some(RenameEdits(r[1].reference_list, r[1].variable_name,
                                       new_name))
                 ELSE None)])
  /\ UNCHANGED <<document_map, ast_map, semantic_token_map, client, task, keywords, calls>>
  /\ UNCHANGED <<line, pc, ruleVars, treeVars, valueVars>>

\* the edits of Backend::formatting for the rules `order` of the AST, in
\* that order: the line of a rule is the line of the offset at which its
\* span starts, and a rule whose text differs from that line gets an edit
\* with the text at the start of the line
RECURSIVE FormattingEdits(_, _, _)
FormattingEdits(ast, order, text) ==
  IF order = <<>> THEN <<>>
  ELSE Bind(CharToLine(text, ast.rules[order[1]].span.start), LAMBDA line_nr :
         IF line_nr + 1 \notin DOMAIN RopeLines(text, <<>>)
         THEN FormattingEdits(ast, Tail(order), text)
         ELSE (IF RopeLines(text, <<>>)[line_nr + 1]
                    # RuleToString(ast.rules[order[1]].node)
               THEN <<[range |-> [start |-> [line |-> line_nr, character |-> 0],
                                  end |-> [line |-> line_nr, character |-> 0]],
                       new_text |-> RuleToString(ast.rules[order[1]].node)]>>
               ELSE <<>>)
              \o FormattingEdits(ast, Tail(order), text))

\* the rules that Backend::range_formatting keeps: those whose line is in
\* the half-open range of lines
RulesInRange(ast, order, text, start_line, end_line) ==
  SelectSeq(order, LAMBDA n :
    /\ start_line <= CharToLine(text, ast.rules[n].span.start)
    /\ CharToLine(text, ast.rules[n].span.start) < end_line)

\* Backend::formatting (src/src/main.rs, 223-258)
Formatting(uri, order) ==
  /\ uri \in DOMAIN ast_map
  /\ uri \in DOMAIN document_map
  /\ reply' = Some([query |-> "formatting",
                    result |-> Some(FormattingEdits(ast_map[uri], order,
                                                    document_map[uri]))])
  /\ UNCHANGED <<document_map, ast_map, semantic_token_map, client, task, keywords, calls>>
  /\ UNCHANGED <<line, pc, ruleVars, treeVars, valueVars>>

\* Backend::range_formatting (src/src/main.rs, 260-305)
RangeFormatting(uri, order, start_line, end_line) ==
  /\ uri \in DOMAIN ast_map
  /\ uri \in DOMAIN document_map
  /\ reply' = Some([query |-> "range_formatting",
                    start_line |-> start_line,
                    end_line |-> end_line,
                    result |-> Some(FormattingEdits(
                                 ast_map[uri],
                                 RulesInRange(ast_map[uri], order, document_map[uri],
                                              start_line, end_line),
                                 document_map[uri]))])
  /\ UNCHANGED <<document_map, ast_map, semantic_token_map, client, task, keywords, calls>>
  /\ UNCHANGED <<line, pc, ruleVars, treeVars, valueVars>>

\* Rule::get_hover on the rule of a line (src/src/rule/mod.rs, 168-203)
RuleHover(uri, position) ==
  /\ uri \in DOMAIN ast_map
  /\ position.line \in DOMAIN ast_map[uri].rules
  /\ reply' =
       Some([query |-> "rule_get_hover",
             position |-> position,
             result |-> RuleGetHover(ast_map[uri].rules[position.line].node,
                                     position.character, keywords)])
  /\ UNCHANGED <<document_map, ast_map, semantic_token_map, client, task, keywords, calls>>
  /\ UNCHANGED <<line, pc, ruleVars, treeVars, valueVars>>

\* the queries of a stored document; one query is answered, after the last
\* change
Query(uri) ==
  /\ task.pc = "idle"
  /\ reply = None
  /\ uri \in DOMAIN document_map
  /\ \E position \in Positions(document_map[uri]) :
       \/ \E order \in Orders(DOMAIN ast_map[uri].rules),
             include_self \in BOOLEAN :
            References(uri, order, position.character, include_self)
       \/ \E overflow_checks \in BOOLEAN :
            Completion(uri, position, overflow_checks)
       \/ Hover(uri, position)
       \/ HeaderHover(uri, position)
       \/ RuleHover(uri, position)
       \/ \E order \in Orders(DOMAIN ast_map[uri].rules), new_name \in NewNames :
            Rename(uri, order, position, new_name)
       \/ \E order \in Orders(DOMAIN ast_map[uri].rules) :
            /\ position.character = 0
            /\ \/ Formatting(uri, order)
               \/ \E end_line \in position.line..(MaxLines + 1) :
                    RangeFormatting(uri, order, position.line, end_line)

NextQuery ==
  \/ \E uri \in Uris, text \in QueryTexts : reply = None /\ OnChangeParse(uri, text)
  \/ OnChangePublish
  \/ OnChangeInsertAst
  \/ OnChangeInsertTokens
  \/ \E uri \in Uris : Query(uri)

SpecQuery == InitQuery /\ [][NextQuery]_vars

\* the variables written in the fields `fields` of the header of a rule, in
\* the order of the text of its line
FieldOccurrences(text, rule, fields) ==
  SelectSeq(VariableOccurrences(text, 0), LAMBDA v :
    \E f \in fields :
      /\ rule.header.node[f] # None
      /\ rule.header.node[f][1].span.start <= v.span.start
      /\ v.span.end <= rule.header.node[f][1].span.end)

\* the variables written in the fields `fields` of the rules of a document,
\* from line k on
RECURSIVE DocumentOccurrences(_, _, _, _)
DocumentOccurrences(lines, ast, fields, k) ==
  IF k > Len(lines) THEN <<>>
  ELSE (IF k - 1 \in DOMAIN ast.rules
        THEN FieldOccurrences(lines[k], ast.rules[k - 1].node, fields)
        ELSE <<>>)
       \o DocumentOccurrences(lines, ast, fields, k + 1)

\* the variables written in the fields `fields` of the stored document
Occurrences(uri, fields) ==
  DocumentOccurrences(RopeLines(document_map[uri], <<>>), ast_map[uri], fields, 1)

\* the names of a sequence of occurrences
Names(occurrences) == {occurrences[k].name : k \in DOMAIN occurrences}

\* the bag of the elements of a sequence
BagOfSeq(seq) ==
  [x \in {seq[k] : k \in DOMAIN seq} |->
     Cardinality({k \in DOMAIN seq : seq[k] = x})]

AddressFields == {"source", "destination"}

PortFieldNames == {"source_port", "destination_port"}

\* the reply is that of a query of the kind q on the one document
Replied(q) ==
  /\ reply # None
  /\ reply[1].query = q
  /\ reply[1].result # None

TheUri == CHOOSE uri \in Uris : TRUE

\* C12: get_variables_from_ast fills the address set with the names of the
\* variables of the sources and destinations of the rules and the port set
\* with those of their source and destination ports, and nothing else
VariableInventory ==
  Replied("completion") =>
    /\ reply[1].result[1].variables.address_variables
         = Names(Occurrences(TheUri, AddressFields))
    /\ reply[1].result[1].variables.port_variables
         = Names(Occurrences(TheUri, PortFieldNames))

\* C12, witness: the inventory of a document of two rules has a name of a
\* negated port only, a name of a group of addresses only, and a name used
\* for both
InventoryTaken ==
  /\ Replied("completion")
  /\ Len(RopeLines(document_map[TheUri], <<>>)) = 2
  /\ reply[1].result[1].variables.address_variables = {<<"A">>, <<"B">>}
  /\ reply[1].result[1].variables.port_variables = {<<"P">>}
  /\ \E k \in DOMAIN ast_map[TheUri].rules :
       /\ ast_map[TheUri].rules[k].node.header.node.destination_port # None
       /\ ast_map[TheUri].rules[k].node.header.node.destination_port[1].node.tag
            = "NegPort"

\* the occurrences of a name among the variables of the address fields
AddressOccurrencesOf(name) ==
  SelectSeq(Occurrences(TheUri, AddressFields), LAMBDA v : v.name = name)

\* the occurrences of a name among the variables of the port fields
PortOccurrencesOf(name) ==
  SelectSeq(Occurrences(TheUri, PortFieldNames), LAMBDA v : v.name = name)

\* the lines whose rule has the name in an address field
RulesWith(name) ==
  {k \in DOMAIN ast_map[TheUri].rules :
     \E j \in 1..Len(FieldOccurrences(RopeLines(document_map[TheUri], <<>>)[k + 1],
                                      ast_map[TheUri].rules[k].node,
                                      AddressFields)) :
       FieldOccurrences(RopeLines(document_map[TheUri], <<>>)[k + 1],
                        ast_map[TheUri].rules[k].node, AddressFields)[j].name
         = name}

\* C13: for a variable that occurs in two or more rules, get_reference with
\* include_self returns all its occurrences, and without it all of them but
\* one, the occurrence at the offset
ReferenceExclusivity ==
  /\ reply # None
  /\ reply[1].query = "reference"
  /\ reply[1].result.variable_name # None
  /\ Cardinality(RulesWith(reply[1].result.variable_name[1])) >= 2
  => IF reply[1].include_self
     THEN BagOfSeq(reply[1].result.references)
            = BagOfSeq(AddressOccurrencesOf(reply[1].result.variable_name[1]))
     ELSE \E origin \in DOMAIN BagOfSeq(
                          AddressOccurrencesOf(reply[1].result.variable_name[1])) :
            /\ origin.span.start <= reply[1].ident_offset
            /\ reply[1].ident_offset < origin.span.end
            /\ BagOfSeq(reply[1].result.references) (+) SetToBag({origin})
                 = BagOfSeq(AddressOccurrencesOf(reply[1].result.variable_name[1]))

\* the port variables written at the offset in the lines of the document
PortVariablesAt(offset) ==
  SelectSeq(Occurrences(TheUri, PortFieldNames), LAMBDA v :
    v.span.start <= offset /\ offset < v.span.end)

\* C14: get_reference at an offset that lies in a port variable, and in no
\* address variable, resolves the port variable and, with include_self,
\* returns every occurrence of it in the port fields of the rules
ReferencesCoverPorts ==
  /\ reply # None
  /\ reply[1].query = "reference"
  /\ PortVariablesAt(reply[1].ident_offset) # <<>>
  /\ Cardinality(Names(PortVariablesAt(reply[1].ident_offset))) = 1
  /\ \A k \in DOMAIN Occurrences(TheUri, AddressFields) :
       ~ (/\ Occurrences(TheUri, AddressFields)[k].span.start <= reply[1].ident_offset
          /\ reply[1].ident_offset < Occurrences(TheUri, AddressFields)[k].span.end)
  => /\ reply[1].result.variable_name
          = Some(PortVariablesAt(reply[1].ident_offset)[1].name)
     /\ reply[1].include_self =>
          BagOfSeq(reply[1].result.references)
            = BagOfSeq(PortOccurrencesOf(PortVariablesAt(reply[1].ident_offset)[1].name))

\* the character before the cursor of a completion request: <<c>>, or <<>>
\* at column 0 and beyond the end of the line
CharBefore(position) ==
  IF /\ position.character >= 1
     /\ position.character
          <= Len(RopeLines(document_map[TheUri], <<>>)[position.line + 1])
  THEN <<RopeLines(document_map[TheUri], <<>>)[position.line + 1][position.character]>>
  ELSE <<>>

\* the items that insert the names of a set of variables
NameItems(names) ==
  SetToBag({[label |-> n, insert_text |-> <<n>>, kind |-> "VARIABLE",
             detail |-> <<n>>] : n \in names})

\* C15: right after a "$" the completion has one item for each address
\* variable and one for each port variable of the document, each labelled
\* with and inserting the name without "$", and no other item
CompletionAfterDollar ==
  Replied("completion") /\ CharBefore(reply[1].position) = <<"$">> =>
    reply[1].result[1].completion_tokens
      = NameItems(Names(Occurrences(TheUri, AddressFields)))
        (+) NameItems(Names(Occurrences(TheUri, PortFieldNames)))

\* C15, witness: with a dictionary of keywords, the completion after a "$"
\* has three items, for the address variables A and B and the port
\* variable P
DollarCompleted ==
  /\ Replied("completion")
  /\ CharBefore(reply[1].position) = <<"$">>
  /\ keywords # EmptyMap
  /\ Names(Occurrences(TheUri, AddressFields)) = {<<"A">>, <<"B">>}
  /\ Names(Occurrences(TheUri, PortFieldNames)) = {<<"P">>}
  /\ BagCardinality(reply[1].result[1].completion_tokens) = 3

\* C16: keywords are proposed only right after "(" or ";", and after a
\* character that is none of "$", "(" and ";" nothing is proposed
CompletionContext ==
  Replied("completion") /\ ~reply[1].result[1].abort =>
    /\ (\E item \in BagToSet(reply[1].result[1].completion_tokens) :
          item.kind = "KEYWORD")
         => CharBefore(reply[1].position) \in {<<"(">>, <<";">>}
    /\ CharBefore(reply[1].position) \notin {<<"$">>, <<"(">>, <<";">>}
         => reply[1].result[1].completion_tokens = EmptyBag

\* the text of a record's features starts with "No option"
FeaturesNoOption(record) ==
  /\ Len(record.features) >= 9
  /\ SubSeq(record.features, 1, 9) = <<"N", "o", " ", "o", "p", "t", "i", "o", "n">>

\* C17: right after "(" or ";" every keyword of the dictionary has an item;
\* it inserts "name; " if the features of its record start with
\* "No option" and "name: " otherwise
KeywordCompletionText ==
  Replied("completion") /\ CharBefore(reply[1].position) \in {<<"(">>, <<";">>} =>
    \A name \in DOMAIN keywords :
      \E item \in BagToSet(reply[1].result[1].completion_tokens) :
        /\ item.label = name
        /\ item.insert_text
             = <<name \o (IF FeaturesNoOption(keywords[name].record)
                          THEN <<";", " ">> ELSE <<":", " ">>)>>

\* C18: get_completion returns a list for every column, column 0 and the
\* columns beyond the line included: it does not abort, and the position of
\* the character before the cursor does not underflow
QueriesNeverFail ==
  Replied("completion") =>
    ~reply[1].result[1].abort /\ ~reply[1].result[1].wrapped

\* a hover request was answered: query is "hover" for Backend::hover and
\* "get_hover" for Header::get_hover
Asked(query) == reply # None /\ reply[1].query = query

\* the header of the rule of the line of a position, <<>> if the line has
\* no rule
HeaderAt(position) ==
  IF TheUri \in DOMAIN ast_map /\ position.line \in DOMAIN ast_map[TheUri].rules
  THEN <<ast_map[TheUri].rules[position.line].node.header.node>>
  ELSE <<>>

\* the CIDR nodes of an address
RECURSIVE CidrNodes(_)
CidrNodes(address) ==
  CASE address.node.tag = "CIDR" -> {address.node}
    [] address.node.tag = "IPGroup" ->
         UNION {CidrNodes(address.node.items[k]) : k \in DOMAIN address.node.items}
    [] address.node.tag = "NegIP" -> CidrNodes(address.node.child)
    [] OTHER -> {}

\* the IPv4 CIDR nodes of the source and destination of the line of a
\* position that the column of the position lies inside
CidrsAt(position) ==
  IF HeaderAt(position) = <<>> THEN {}
  ELSE {c \in UNION {IF HeaderAt(position)[1][f] = <<>> THEN {}
                     ELSE CidrNodes(HeaderAt(position)[1][f][1]) : f \in AddressFields} :
          /\ c.ip.v = 4
          /\ c.ipspan.start <= position.character
          /\ position.character < c.maskspan.end}

\* the number of the 32 - m host bits that are in octet k
OctetHostBits(m, k) ==
  IF 8 * k - m < 0 THEN 0 ELSE IF 8 * k - m > 8 THEN 8 ELSE 8 * k - m

\* the text of a/m with its host bits cleared, and with them set
NetworkText(c) ==
  Ipv4ToString([k \in 1..4 |->
    (c.ip.o[k] \div 2^OctetHostBits(c.mask, k)) * 2^OctetHostBits(c.mask, k)])

BroadcastText(c) ==
  Ipv4ToString([k \in 1..4 |->
    (c.ip.o[k] \div 2^OctetHostBits(c.mask, k)) * 2^OctetHostBits(c.mask, k)
    + 2^OctetHostBits(c.mask, k) - 1])

\* the text sub occurs in the text t
Contains(t, sub) ==
  \E i \in 1..(Len(t) - Len(sub) + 1) : SubSeq(t, i, i + Len(sub) - 1) = sub

\* the content and the span of the hover of the reply, the span as columns
\* of the line of the request
ReplyContents ==
  IF reply[1].query = "hover" THEN reply[1].result[1].contents
  ELSE reply[1].result[1].node

ReplySpanIs(start, end) ==
  IF reply[1].query = "hover"
  THEN reply[1].result[1].range
         = [start |-> [line |-> reply[1].position.line, character |-> start],
            end |-> [line |-> reply[1].position.line, character |-> end]]
  ELSE reply[1].result[1].span = [start |-> start, end |-> end]

\* C19: a hover inside an IPv4 CIDR a/m with m <= 32 has a content that
\* names a with its host bits cleared and a with its host bits set, and the
\* span from the start of a to the end of m; with m > 32 there is no hover
CidrHover ==
  Asked("hover") \/ Asked("get_hover") =>
    \A c \in CidrsAt(reply[1].position) :
      IF c.mask <= 32
      THEN /\ reply[1].result # None
           /\ Contains(ReplyContents, NetworkText(c))
           /\ Contains(ReplyContents, BroadcastText(c))
           /\ ReplySpanIs(c.ipspan.start, c.maskspan.end)
      ELSE reply[1].result = None

\* the same of Header::get_hover alone
CidrGetHover == Asked("get_hover") => CidrHover

\* the kind of the node of an address that a column lies on: that of the
\* leaf, or of the group or negation if the column is on its own characters
RECURSIVE NodeTagAt(_, _)
NodeTagAt(address, col) ==
  CASE address.node.tag = "IPGroup" ->
         IF \E k \in DOMAIN address.node.items :
              /\ address.node.items[k].span.start <= col
              /\ col < address.node.items[k].span.end
         THEN NodeTagAt(address.node.items[
                CHOOSE k \in DOMAIN address.node.items :
                  /\ address.node.items[k].span.start <= col
                  /\ col < address.node.items[k].span.end], col)
         ELSE "IPGroup"
    [] address.node.tag = "NegIP" ->
         IF /\ address.node.child.span.start <= col
            /\ col < address.node.child.span.end
         THEN NodeTagAt(address.node.child, col)
         ELSE "NegIP"
    [] OTHER -> address.node.tag

\* the field f of the header of the line of a position is there and the
\* column lies on it
OnField(position, f) ==
  /\ HeaderAt(position) # <<>>
  /\ HeaderAt(position)[1][f] # <<>>
  /\ HeaderAt(position)[1][f][1].span.start <= position.character
  /\ position.character < HeaderAt(position)[1][f][1].span.end

\* the column lies on "any", a plain IP address or a variable of an address
OnPlainAddress(position) ==
  \E f \in AddressFields :
    /\ OnField(position, f)
    /\ NodeTagAt(HeaderAt(position)[1][f][1], position.character)
         \in {"Any", "IPAddr", "IPVariable"}

\* C20: a hover on "any", on a plain IP address, on a variable of an
\* address, on a port of any form or on the direction is none
HoverMiss ==
  /\ Asked("hover") \/ Asked("get_hover")
  /\ \/ OnPlainAddress(reply[1].position)
     \/ \E f \in PortFieldNames \cup {"direction"} : OnField(reply[1].position, f)
  => reply[1].result = None

\* C20, witness: Header::get_hover was asked on the plain IP address of a
\* group and gave none
HoverMissedOnAddress ==
  /\ Asked("get_hover")
  /\ OnField(reply[1].position, "source")
  /\ HeaderAt(reply[1].position)[1].source[1].node.tag = "IPGroup"
  /\ NodeTagAt(HeaderAt(reply[1].position)[1].source[1],
               reply[1].position.character) = "IPAddr"
  /\ reply[1].result = None

\* the options of the rule of the line of a position, <<>> if there are none
OptionsAt(position) ==
  IF /\ TheUri \in DOMAIN ast_map
     /\ position.line \in DOMAIN ast_map[TheUri].rules
     /\ ast_map[TheUri].rules[position.line].node.options # <<>>
  THEN ast_map[TheUri].rules[position.line].node.options[1]
  ELSE <<>>

\* the options of the line of a position whose keyword is in the dictionary
\* and has the column of the position inside its span
KeywordsAt(position) ==
  {k \in DOMAIN OptionsAt(position) :
     /\ OptionsAt(position)[k].node.kwspan.start <= position.character
     /\ position.character < OptionsAt(position)[k].node.kwspan.end
     /\ OptionsAt(position)[k].node.keyword \in DOMAIN keywords}

\* the column of a position is outside the header of the rule of its line
OutsideHeader(position) ==
  /\ TheUri \in DOMAIN ast_map
  /\ position.line \in DOMAIN ast_map[TheUri].rules
  /\ ~ (/\ ast_map[TheUri].rules[position.line].node.header.span.start
             <= position.character
        /\ position.character
             < ast_map[TheUri].rules[position.line].node.header.span.end)

\* the result of get_hover of hover.rs or of Rule::get_hover in the reply
Found ==
  IF reply[1].query = "hover" THEN reply[1].found ELSE reply[1].result

ValueHovered ==
  /\ Asked("hover")
  /\ keywords # EmptyMap
  /\ \E k \in DOMAIN OptionsAt(reply[1].position) :
       /\ OptionsAt(reply[1].position)[k].node.tag = "KeywordPair"
       /\ OptionsAt(reply[1].position)[k].node.keyword \in DOMAIN keywords
       /\ OptionsAt(reply[1].position)[k].node.kwspan.end < reply[1].position.character
       /\ reply[1].position.character < OptionsAt(reply[1].position)[k].span.end
  /\ reply[1].found = None

\* C30: the span of a hover of Rule::get_hover contains the column, also on
\* the "!" of a negated CIDR and on a separator of a group
HoverSpanContainsCursor ==
  Asked("rule_get_hover") /\ reply[1].result # None =>
    /\ reply[1].result[1].span.start <= reply[1].position.character
    /\ reply[1].position.character < reply[1].result[1].span.end

\* ------------------------------------------------------------------------
\* SpecEq: two rules are compared (src/src/rule.rs, src/src/rule/mod.rs)
\* ------------------------------------------------------------------------

\* the lines whose rules give the actions, the headers and the options
EqLines ==
  {<<"a", "l", "e", "r", "t", " ", "i", "p", " ", "a", "n", "y", " ", "a", "n", "y",
     " ", "-", ">", " ", "a", "n", "y", " ", "a", "n", "y", " ",
     "(", "a", ";", "b", ":", "1", ";", "c", ")">>,
   <<"d", "r", "o", "p", " ", "i", "p", " ", "a", "n", "y", " ", "a", "n", "y",
     " ", "-", ">", " ", "a", "n", "y", " ", "a", "n", "y", " ",
     "(", "a", ";", "b", ":", "1", ";", "c", ")">>}

\* the options, with their spans, that the rules are built of: those of
\* the line with the action alert
EqOptions ==
  UNION {{ParseRecovery(l).rule[1].node.options[1][k] :
            k \in DOMAIN ParseRecovery(l).rule[1].node.options[1]} :
         l \in {l \in EqLines : l[1] = "a"}}

\* the rules: the action and the header of a parsed line with a list of at
\* most MaxOpts options
EqRules ==
  {[outcome |-> "rule",
    rule |-> Some(Spanned([action |-> ParseRecovery(l).rule[1].node.action,
                           header |-> ParseRecovery(l).rule[1].node.header,
                           options |-> Some(options)],
                          ParseRecovery(l).rule[1].span))] :
     l \in EqLines, options \in UNION {[1..n -> EqOptions] : n \in 0..MaxOpts}}

\* #[derive(PartialEq)] of Rule: the fields are equal, the options as lists
DerivedEq(self, other) ==
  /\ self.action = other.action
  /\ self.header = other.header
  /\ self.options = other.options

\* impl PartialEq for Rule: the options are compared as HashSets
SetEq(self, other) ==
  /\ self.action = other.action
  /\ self.header = other.header
  /\ {self.options[1][k] : k \in DOMAIN self.options[1]}
       = {other.options[1][k] : k \in DOMAIN other.options[1]}

InitEq ==
  /\ line = <<>> /\ pc = "built"
  /\ parsed \in EqRules /\ reparsed \in EqRules
  /\ formatted = None
  /\ NoTree /\ NoValue /\ NoDoc

\* self == other, with the PartialEq of rule/mod.rs (derived) or of rule.rs
CompareRules(derived) ==
  /\ pc = "built"
  /\ reply' = Some([query |-> "eq",
                    derived |-> derived,
                    equal |-> IF derived
                              THEN DerivedEq(parsed.rule[1].node, reparsed.rule[1].node)
                              ELSE SetEq(parsed.rule[1].node, reparsed.rule[1].node)])
  /\ pc' = "compared"
  /\ UNCHANGED <<line, ruleVars, treeVars, valueVars, document_map, ast_map,
                 semantic_token_map, client, task, keywords, calls>>

NextEq == \E derived \in BOOLEAN : CompareRules(derived)

SpecEq == InitEq /\ [][NextEq]_vars

\* the options of the two rules compared
SelfOptions == parsed.rule[1].node.options[1]

OtherOptions == reparsed.rule[1].node.options[1]

\* C22: of two rules with equal action and header, those whose option lists
\* are permutations of each other are equal, and those whose sets of options
\* differ are not
EqualityIgnoresOrder ==
  /\ pc = "compared"
  /\ parsed.rule[1].node.action = reparsed.rule[1].node.action
  /\ parsed.rule[1].node.header = reparsed.rule[1].node.header
  => /\ BagOfSeq(SelfOptions) = BagOfSeq(OtherOptions) => reply[1].equal
     /\ {SelfOptions[k] : k \in DOMAIN SelfOptions}
          # {OtherOptions[k] : k \in DOMAIN OtherOptions} => ~reply[1].equal

\* the same of the PartialEq of rule.rs alone
SetEqualityIgnoresOrder == pc = "compared" /\ ~reply[1].derived => EqualityIgnoresOrder

\* ------------------------------------------------------------------------
\* SpecTokens: semantic_tokens_full requests on a stored document
\* (src/src/main.rs, 95-155)
\* ------------------------------------------------------------------------

\* the tokens of the rules of the AST, its HashMap iterated in the order
\* `order`, each rule with the offset of its line
RECURSIVE ExtendsTokens(_, _, _)
ExtendsTokens(ast, order, lines) ==
  IF order = <<>> THEN <<>>
  ELSE SemanticTokenFromRule(ast.rules[order[1]], LineToChar(lines, order[1]))
       \o ExtendsTokens(ast, Tail(order), lines)

\* sort_by(|a, b| a.start.cmp(&b.start)): a stable sort, the token at index
\* i goes behind those of a smaller start and those of the same start
\* before it
SortByStart(tokens) ==
  [r \in 1..Len(tokens) |->
     tokens[CHOOSE i \in 1..Len(tokens) :
              Cardinality({j \in 1..Len(tokens) :
                             \/ tokens[j].start < tokens[i].start
                             \/ tokens[j].start = tokens[i].start /\ j <= i}) = r]]

\* the line and column of the start of token k, in the text; those of the
\* token before the first one are pre_line = 0 and pre_start = 0
TokenPosition(tokens, k, text) ==
  IF k = 0 THEN [line |-> 0, character |-> 0]
  ELSE OffsetToPosition(tokens[k].start, text)[1]

\* the SemanticToken of each token whose start is an offset of the text,
\* relative to the token before it
DeltaTokens(tokens, text) ==
  Bind(SelectSeq(tokens, LAMBDA t : t.start <= Len(text)), LAMBDA valid :
    [k \in 1..Len(valid) |->
       [delta_line |-> TokenPosition(valid, k, text).line
                       - TokenPosition(valid, k - 1, text).line,
        delta_start |->
          IF TokenPosition(valid, k, text).line
               = TokenPosition(valid, k - 1, text).line
          THEN TokenPosition(valid, k, text).character
               - TokenPosition(valid, k - 1, text).character
          ELSE TokenPosition(valid, k, text).character,
        length |-> valid[k].length,
        token_type |-> valid[k].token_type]])

\* the number of requests answered
Requests == IF reply = None THEN 0 ELSE reply[1].count

\* Backend::semantic_tokens_full: the tokens of the AST are appended to the
\* stored list of the document, the list is sorted in place and returned
\* in the relative encoding
SemanticTokensFull(uri, order) ==
  /\ task.pc = "idle"
  /\ Requests < MaxRequests
  /\ uri \in DOMAIN semantic_token_map
  /\ uri \in DOMAIN document_map
  /\ uri \in DOMAIN ast_map
  /\ order \in Orders(DOMAIN ast_map[uri].rules)
  /\ semantic_token_map' =
       Insert(semantic_token_map, uri,
              SortByStart(semantic_token_map[uri]
                          \o ExtendsTokens(ast_map[uri], order,
                                           RopeLines(document_map[uri], <<>>))))
  /\ reply' = Some([query |-> "semantic_tokens_full",
                    count |-> Requests + 1,
                    result |-> DeltaTokens(semantic_token_map'[uri],
                                           document_map[uri])])
  /\ UNCHANGED <<document_map, ast_map, client, task, keywords, calls>>
  /\ UNCHANGED <<line, pc, ruleVars, treeVars, valueVars>>

\* the document changes until the first request
NextTokens ==
  \/ \E uri \in Uris, text \in QueryTexts : reply = None /\ OnChangeParse(uri, text)
  \/ OnChangePublish
  \/ OnChangeInsertAst
  \/ OnChangeInsertTokens
  \/ \E uri \in Uris, order \in UNION {Orders(S) : S \in SUBSET (0..MaxLines)} :
       SemanticTokensFull(uri, order)

SpecTokens == InitQuery /\ [][NextTokens]_vars

\* C23: a semantic_tokens_full request on a document that does not change
\* leaves the stored token list of the document as it was, and returns the
\* list the request before it returned
RequestsLeaveTokens ==
  [][reply' # reply =>
       /\ semantic_token_map' = semantic_token_map
       /\ reply # None => reply'[1].result = reply[1].result]_vars

\* the line with its edits applied, the edit that starts last first
RECURSIVE ApplyEdits(_, _)
ApplyEdits(text, edits) ==
  IF edits = {} THEN text
  ELSE Bind(CHOOSE e \in edits :
              \A f \in edits : f.range.start.character <= e.range.start.character,
            LAMBDA e :
         ApplyEdits(SubSeq(text, 1, e.range.start.character)
                    \o e.new_text
                    \o SubSeq(text, e.range.end.character + 1, Len(text)),
                    edits \ {e}))

\* the line with every "$old" of it written "$new"
RECURSIVE Renamed(_, _, _, _)
Renamed(text, occurrences, old, new) ==
  IF occurrences = <<>> THEN text
  ELSE Bind(occurrences[Len(occurrences)], LAMBDA v :
         Renamed(IF v.name = old
                 THEN SubSeq(text, 1, v.span.start) \o <<"$">> \o new
                      \o SubSeq(text, v.span.end + 1, Len(text))
                 ELSE text,
                 SubSeq(occurrences, 1, Len(occurrences) - 1), old, new))

\* the variable written at a position of the document, <<>> if there is none
VariableAt(position) ==
  IF position.line + 1 \notin DOMAIN RopeLines(document_map[TheUri], <<>>) THEN <<>>
  ELSE SelectSeq(VariableOccurrences(
                   RopeLines(document_map[TheUri], <<>>)[position.line + 1], 0),
                 LAMBDA v : /\ v.span.start <= position.character
                            /\ position.character < v.span.end)

\* the edits of the reply that are on line k (from 1) of the document
EditsOfLine(k) ==
  {reply[1].result[1][i] : i \in {i \in DOMAIN reply[1].result[1] :
                                   reply[1].result[1][i].range.start.line = k - 1}}

\* C24: the edits of a rename of the variable at the cursor, applied to the
\* document, write every "$old" as "$new" and change nothing else
RenameKeepsSigil ==
  /\ Asked("rename")
  /\ VariableAt(reply[1].position) # <<>>
  => /\ reply[1].result # None
     /\ \A k \in DOMAIN RopeLines(document_map[TheUri], <<>>) :
          ApplyEdits(RopeLines(document_map[TheUri], <<>>)[k], EditsOfLine(k))
            = Renamed(RopeLines(document_map[TheUri], <<>>)[k],
                      VariableOccurrences(
                        RopeLines(document_map[TheUri], <<>>)[k], 0),
                      VariableAt(reply[1].position)[1].name,
                      reply[1].new_name)

\* the stored AST of a document has the entries of the rules of the lines
\* of the stored text, and no other
AstOfText(uri) ==
  /\ uri \in DOMAIN ast_map
  /\ DOMAIN ast_map[uri].rules
       = {k - 1 : k \in {k \in DOMAIN RopeLines(document_map[uri], <<>>) :
            ParseRecovery(RopeLines(document_map[uri], <<>>)[k]).outcome = "rule"}}
  /\ \A n \in DOMAIN ast_map[uri].rules :
       ast_map[uri].rules[n]
         = ParseRecovery(RopeLines(document_map[uri], <<>>)[n + 1]).rule[1]

\* C25: when no call of on_change is in progress, the stored AST of a
\* document has an entry for line n if and only if line n of the latest
\* text parses into a rule, and the entry is that rule
AstRebuiltWholesale ==
  task.pc = "idle" => \A uri \in DOMAIN document_map : AstOfText(uri)

\* ------------------------------------------------------------------------
\* SpecRace: calls of on_change for one document run concurrently, each
\* from one await to the next, and a hover request is served between their
\* steps (src/src/main.rs, 375-382, 451-540, 307-329)
\* ------------------------------------------------------------------------

\* the texts of the versions of the document
RaceTexts == QueryLines

InitRace ==
  /\ document_map = EmptyMap /\ ast_map = EmptyMap
  /\ semantic_token_map = EmptyMap /\ client = EmptyMap
  /\ task = Idle
  /\ keywords = EmptyMap /\ reply = None
  /\ calls = [id \in 1..MaxCalls |-> Idle]
  /\ line = <<>> /\ pc = "typed"
  /\ NoRule /\ NoTree /\ NoValue

\* the call id of on_change up to its first await (main.rs, 452-466): the
\* text is stored and its lines are parsed
CallParse(id, uri, text) ==
  /\ calls[id].pc = "idle"
  /\ document_map' = Insert(document_map, uri, text)
  /\ calls' =
       [calls EXCEPT ![id] =
          IF \E k \in DOMAIN RopeLines(text, <<>>) :
               ParseRecovery(RopeLines(text, <<>>)[k]).outcome = "abort"
          THEN [pc |-> "done", version |-> id, uri |-> uri, rope |-> text]
          ELSE Parsed(uri, text, id, RopeLines(text, <<>>),
                      ParseLines(RopeLines(text, <<>>)), EmptyMap)]
  /\ UNCHANGED <<ast_map, semantic_token_map, client, task, keywords, reply>>
  /\ UNCHANGED <<line, pc, ruleVars, treeVars, valueVars>>

\* the call id publishes its diagnostics (main.rs, 476-528)
CallPublish(id) ==
  /\ calls[id].pc = "parsed"
  /\ client' = Insert(client, calls[id].uri,
                      [diagnostics |-> Diagnostics(calls[id].errors, calls[id].rope),
                       version |-> calls[id].version])
  /\ calls' = [calls EXCEPT ![id].pc = "published"]
  /\ UNCHANGED <<document_map, ast_map, semantic_token_map, task, keywords, reply>>
  /\ UNCHANGED <<line, pc, ruleVars, treeVars, valueVars>>

\* the call id stores its AST (main.rs, 530)
CallInsertAst(id) ==
  /\ calls[id].pc = "published"
  /\ ast_map' = Insert(ast_map, calls[id].uri, calls[id].ast)
  /\ calls' = [calls EXCEPT ![id].pc = "stored"]
  /\ UNCHANGED <<document_map, semantic_token_map, client, task, keywords, reply>>
  /\ UNCHANGED <<line, pc, ruleVars, treeVars, valueVars>>

\* the call id stores its tokens and returns (main.rs, 534-539)
CallInsertTokens(id) ==
  /\ calls[id].pc = "stored"
  /\ semantic_token_map' = Insert(semantic_token_map, calls[id].uri,
                                  calls[id].semantic_tokens)
  /\ calls' = [calls EXCEPT ![id].pc = "done"]
  /\ UNCHANGED <<document_map, ast_map, client, task, keywords, reply>>
  /\ UNCHANGED <<line, pc, ruleVars, treeVars, valueVars>>

NextRace ==
  \/ \E id \in 1..MaxCalls, uri \in Uris, text \in RaceTexts : CallParse(id, uri, text)
  \/ \E id \in 1..MaxCalls : CallPublish(id)
  \/ \E id \in 1..MaxCalls : CallInsertAst(id)
  \/ \E id \in 1..MaxCalls : CallInsertTokens(id)
  \/ \E uri \in DOMAIN document_map :
       /\ reply = None
       /\ \E position \in Positions(document_map[uri]) : Hover(uri, position)

SpecRace == InitRace /\ [][NextRace]_vars

\* C26: the AST a query reads is that of the text it reads
ConsistentSnapshot ==
  [][reply' # reply =>
       \A uri \in DOMAIN document_map \cap DOMAIN ast_map : AstOfText(uri)]_vars

\* C27: when concurrent calls of on_change with different texts have all
\* returned, the AST and the tokens stored for the document are those of
\* its stored text
StoresConverge ==
  /\ calls # <<>>
  /\ \A id \in DOMAIN calls : calls[id].pc = "done"
  /\ \E id \in DOMAIN calls, other \in DOMAIN calls : calls[id].rope # calls[other].rope
  => \A uri \in DOMAIN document_map :
       /\ AstOfText(uri)
       /\ uri \in DOMAIN semantic_token_map
       /\ semantic_token_map[uri]
            = LineTokens(ParseLines(RopeLines(document_map[uri], <<>>)),
                         RopeLines(document_map[uri], <<>>), 1)

\* ------------------------------------------------------------------------
\* SpecVerify: the diagnostics of a log of the checker
\* (src/src/suricata.rs, 27-93)
\* ------------------------------------------------------------------------

\* the texts of the messages: two that end with the line of a rule, one of
\* them with an earlier "at line ", and one without a line
LogTexts ==
  {<<"e", " ", "f", "r", "o", "m", " ", "f", "i", "l", "e", " ", "f", " ", "a", "t", " ", "l", "i", "n", "e", " ", "2">>,
   <<"a", "t", " ", "l", "i", "n", "e", " ", "1", " ", "f", "r", "o", "m", " ", "f", "i", "l", "e", " ", "f", " ", "a", "t", " ", "l", "i", "n", "e", " ", "3">>,
   <<"b", "a", "d", " ", "r", "u", "l", "e">>}

\* the messages: each text with an error code or without one
LogMessages ==
  {[err_code |-> c, message |-> t] : c \in {None, Some(39)}, t \in LogTexts}

\* the logs: None for a log that LogMessage::parse_logs cannot parse, else
\* Some(messages)
Logs ==
  {None} \cup {Some(l) : l \in UNION {[1..n -> LogMessages] : n \in 0..MaxLog}}

\* str::rfind: the offset of the last occurrence of sub in t, -1 for None
RFind(t, sub) ==
  IF \E i \in 0..(Len(t) - Len(sub)) : Slice(t, i, i + Len(sub)) = sub
  THEN CHOOSE i \in 0..(Len(t) - Len(sub)) :
         /\ Slice(t, i, i + Len(sub)) = sub
         /\ \A j \in (i + 1)..(Len(t) - Len(sub)) : Slice(t, j, j + Len(sub)) # sub
  ELSE -1

\* str::contains
StrContains(t, sub) == RFind(t, sub) >= 0

AtLine == <<"a", "t", " ", "l", "i", "n", "e", " ">>

FromFile == <<"f", "r", "o", "m", " ", "f", "i", "l", "e", " ">>

\* parse::<u32>() of a text: Some(value) for a run of digits, None for Err
ParseU32(t) ==
  IF t # <<>> /\ \A k \in DOMAIN t : t[k] \in Digits
  THEN Some(StrToNum(t, 10))
  ELSE None

\* the message has an error code and names a line and a file
IsLocation(error) ==
  /\ error.err_code # None
  /\ StrContains(error.message, AtLine)
  /\ StrContains(error.message, FromFile)

\* curr_line after a message that names a line and a file: the number after
\* the last "at line ", or curr_line as it was if that is no number
LineOf(error, curr_line) ==
  Bind(ParseU32(Slice(error.message, RFind(error.message, AtLine) + Len(AtLine),
                      Len(error.message))), LAMBDA line_num :
    IF line_num = None THEN curr_line ELSE line_num[1])

\* the diagnostic of a message with an error code: curr_line - 1 is a u32,
\* and with curr_line = 0 it panics in a build with overflow checks and
\* wraps to u32::MAX in one without; that line is written -1 here, with
\* the flag wrapped
DiagnosticOf(error, curr_line) ==
  [line |-> curr_line - 1,
   wrapped |-> curr_line = 0,
   code |-> error.err_code[1],
   message |-> error.message]

\* the filter_map over the messages from the last to the first one:
\* logs.iter().rev(), with curr_line and the diagnostics collected so far
RECURSIVE CollectDiagnostics(_, _, _, _)
CollectDiagnostics(logs, curr_line, diagnostics, overflow_checks) ==
  IF logs = <<>> THEN [abort |-> FALSE, diagnostics |-> diagnostics]
  ELSE IF IsLocation(logs[Len(logs)])
  THEN CollectDiagnostics(SubSeq(logs, 1, Len(logs) - 1),
                          LineOf(logs[Len(logs)], curr_line),
                          diagnostics, overflow_checks)
  ELSE IF logs[Len(logs)].err_code = None
  THEN CollectDiagnostics(SubSeq(logs, 1, Len(logs) - 1), curr_line,
                          diagnostics, overflow_checks)
  ELSE IF curr_line = 0 /\ overflow_checks
  THEN [abort |-> TRUE, diagnostics |-> diagnostics]
  ELSE CollectDiagnostics(SubSeq(logs, 1, Len(logs) - 1), curr_line,
                          Append(diagnostics,
                                 DiagnosticOf(logs[Len(logs)], curr_line)),
                          overflow_checks)

InitVerify ==
  /\ document_map = EmptyMap /\ ast_map = EmptyMap
  /\ semantic_token_map = EmptyMap /\ client = EmptyMap
  /\ task \in {[pc |-> "logs", version |-> 0, logs |-> logs] : logs \in Logs}
  /\ keywords = EmptyMap /\ reply = None /\ calls = <<>>
  /\ line = <<>> /\ pc = "typed"
  /\ NoRule /\ NoTree /\ NoValue

\* verify_rule from the parsed log on
VerifyRule(overflow_checks) ==
  /\ task.pc = "logs"
  /\ reply' = Some([query |-> "verify_rule",
                    result |-> IF task.logs = None
                               THEN [abort |-> FALSE, diagnostics |-> <<>>]
                               ELSE CollectDiagnostics(task.logs[1], 0, <<>>,
                                                       overflow_checks)])
  /\ task' = [task EXCEPT !.pc = "returned"]
  /\ UNCHANGED <<document_map, ast_map, semantic_token_map, client, keywords, calls>>
  /\ UNCHANGED <<line, pc, ruleVars, treeVars, valueVars>>

NextVerify == \E overflow_checks \in BOOLEAN : VerifyRule(overflow_checks)

SpecVerify == InitVerify /\ [][NextVerify]_vars

\* the indexes of the messages of the log that get a diagnostic, the last
\* one first
RECURSIVE Reported(_, _)
Reported(logs, k) ==
  IF k = 0 THEN <<>>
  ELSE (IF logs[k].err_code # None
           /\ ~ (Contains(logs[k].message, AtLine) /\ Contains(logs[k].message, FromFile))
        THEN <<k>> ELSE <<>>)
       \o Reported(logs, k - 1)

\* the indexes after k of the messages that end with "at line L" and have
\* an error code
LinesAfter(logs, k) ==
  {j \in (k + 1)..Len(logs) :
     /\ logs[j].err_code # None
     /\ Contains(logs[j].message, FromFile)
     /\ \E L \in 1..9 : SubSeq(logs[j].message, Len(logs[j].message) - Len(AtLine),
                                Len(logs[j].message)) = AtLine \o NumToStr(L, 10)}

\* the number L at the end of a message
LastDigit(error) == HexVal(error.message[Len(error.message)])

\* C28: verify_rule does not abort; it gives one diagnostic for each
\* message with an error code that names no line, the last one first, on a
\* line that is not below 0, and on line L - 1 if a message "at line L"
\* follows it in the log, L being that of the nearest one; a log that cannot
\* be parsed gives no diagnostic
LineAttribution ==
  reply # None /\ reply[1].query = "verify_rule" =>
    /\ ~reply[1].result.abort
    /\ task.logs = None => reply[1].result.diagnostics = <<>>
    /\ task.logs # None =>
         /\ Len(reply[1].result.diagnostics) = Len(Reported(task.logs[1], Len(task.logs[1])))
         /\ \A d \in DOMAIN reply[1].result.diagnostics :
              /\ ~reply[1].result.diagnostics[d].wrapped
              /\ reply[1].result.diagnostics[d].line >= 0
              /\ LinesAfter(task.logs[1], Reported(task.logs[1], Len(task.logs[1]))[d]) # {}
                   => reply[1].result.diagnostics[d].line
                        = LastDigit(task.logs[1][
                            CHOOSE j \in LinesAfter(task.logs[1],
                                       Reported(task.logs[1], Len(task.logs[1]))[d]) :
                              \A i \in LinesAfter(task.logs[1],
                                       Reported(task.logs[1], Len(task.logs[1]))[d]) :
                                j <= i]) - 1

\* the same of the logs in which a message "at line L" follows every other
\* message with an error code
LocatedLineAttribution ==
  /\ reply # None /\ reply[1].query = "verify_rule" /\ task.logs # None
  /\ \A k \in DOMAIN task.logs[1] :
       task.logs[1][k].err_code # None /\ ~IsLocation(task.logs[1][k])
         => LinesAfter(task.logs[1], k) # {}
  => LineAttribution

\* a line without its line break
Chomp(l) ==
  IF l # <<>> /\ l[Len(l)] = "\n" THEN SubSeq(l, 1, Len(l) - 1) ELSE l

\* the lines of the stored document
StoredLines == RopeLines(document_map[TheUri], <<>>)

\* the canonical text of the rule of line k (from 1) of the stored document
Canonical(k) == RuleToString(ast_map[TheUri].rules[k - 1].node)

\* the stored document with the edits of the reply applied
Formatted ==
  [k \in DOMAIN StoredLines |-> ApplyEdits(StoredLines[k], EditsOfLine(k))]

\* C29: formatting has an edit for the line of a rule if and only if the
\* line differs from the canonical text of the rule; with the edits applied
\* every such line is the canonical text, and formatting the result gives no
\* edit; range_formatting has edits for lines of its range only
FormattingConverges ==
  /\ Asked("formatting") =>
       /\ \A k \in DOMAIN StoredLines :
            k - 1 \in DOMAIN ast_map[TheUri].rules =>
              /\ EditsOfLine(k) # {} <=> Chomp(StoredLines[k]) # Canonical(k)
              /\ Chomp(Formatted[k]) = Canonical(k)
       /\ \A k \in DOMAIN StoredLines :
            k - 1 \notin DOMAIN ast_map[TheUri].rules => EditsOfLine(k) = {}
       /\ \A order \in Orders(DOMAIN AstOf(ParseLines(Formatted)).rules) :
            FormattingEdits(AstOf(ParseLines(Formatted)), order,
                            Join(Formatted, <<>>)) = <<>>
  /\ Asked("range_formatting") =>
       \A i \in DOMAIN reply[1].result[1] :
         /\ reply[1].start_line <= reply[1].result[1][i].range.start.line
         /\ reply[1].result[1][i].range.start.line < reply[1].end_line

====
